---- MODULE Spec2Model ----
(***************************************************************************)
(* Model of the scan execution and aggregation engine of the cyber hygiene *)
(* scanner: the scoring engine (app/scanners/scoring.py), the orchestrator *)
(* (app/scanners/tasks.py) and the internet exposure scanner               *)
(* (app/scanners/internet_exposure.py).                                    *)
(*                                                                         *)
(* Fractional scores (weight * 0.8, weight * 0.2) are kept in tenths: a    *)
(* name ending in 10 holds ten times the Python value.                     *)
(***************************************************************************)
EXTENDS Integers, Sequences, FiniteSets, TLC

VARIABLES
    \* ---- scoring engine ----
    engine,          \* ScoringEngine instances: the fields set by __init__
    scan_results,    \* the category map handed to calculate_score
    report,          \* per instance: what its last calculate_score returned
    locals,          \* per instance: the locals of its last calculate_score
    helper_arg,      \* the list handed to a direct call of a list helper
    helper_out,      \* what the direct call returned
    \* ---- orchestrator ----
    orch,            \* run_comprehensive_scan: position, results, call log
    \* ---- internet exposure scanner ----
    expo,            \* InternetExposureScanner: fields, environment, probes
    \* ---- any scanner class: construction and the scan() contract ----
    probe,           \* BaseScanner subclass: constructor call, scan() call
    \* ---- scan job ----
    job,             \* the scan record, the perform_scan task, its worker
    \* ---- TLS scanner ----
    tls_scanner,     \* TLSSecurityScanner: fields, the servers met, position
    \* ---- rate limiter ----
    limiter,         \* RateLimiter: the Redis keys, the requests in flight
    \* ---- thread pool of the socket scan ----
    pool             \* ThreadPoolExecutor of _perform_socket_scan

vars == << engine, scan_results, report, locals, helper_arg, helper_out,
           orch, expo, probe, job, tls_scanner, limiter, pool >>

(***************************************************************************)
(* Python helpers                                                          *)
(***************************************************************************)

\* the empty dict / empty list
EmptyDict == << >>

\* dict.get(key, default)
Get(d, key, default) == IF key \in DOMAIN d THEN d[key] ELSE default

\* what port_info.get("port") gives for a record without the key: None,
\* which equals no port number
NoPort == "None"

\* truthiness of a dict or list
Truthy(d) == DOMAIN d # {}

Max(a, b) == IF a >= b THEN a ELSE b
Min(a, b) == IF a <= b THEN a ELSE b

\* int(n / d) for d > 0: Python's int() truncates toward zero
IntTrunc(n, d) == IF n >= 0 THEN n \div d ELSE -((-n) \div d)

RECURSIVE SumSeq(_)
SumSeq(s) == IF s = << >> THEN 0 ELSE Head(s) + SumSeq(Tail(s))

RECURSIVE ConcatSeq(_)
ConcatSeq(ss) == IF ss = << >> THEN << >> ELSE Head(ss) \o ConcatSeq(Tail(ss))

\* any(pred(x) for x in s)
AnyOf(s, pred(_)) == \E i \in 1..Len(s) : pred(s[i])

(***************************************************************************)
(* Category names and their order as Python compares strings (by code      *)
(* point, a proper prefix first).                                          *)
(***************************************************************************)

\* the keys of category_weights in insertion order, which is the order
\* calculate_score iterates in
CategoryOrder ==
    << "internet_exposure", "tls_security", "web_security", "email_security",
       "vulnerabilities", "iam_assessment", "backup_dr", "logging_monitoring" >>

Categories == { CategoryOrder[i] : i \in 1..Len(CategoryOrder) }

CodePoints(s) ==
    CASE s = "internet_exposure" ->
           << 105, 110, 116, 101, 114, 110, 101, 116, 95, 101, 120, 112, 111,
              115, 117, 114, 101 >>
      [] s = "tls_security" ->
           << 116, 108, 115, 95, 115, 101, 99, 117, 114, 105, 116, 121 >>
      [] s = "web_security" ->
           << 119, 101, 98, 95, 115, 101, 99, 117, 114, 105, 116, 121 >>
      [] s = "email_security" ->
           << 101, 109, 97, 105, 108, 95, 115, 101, 99, 117, 114, 105, 116,
              121 >>
      [] s = "vulnerabilities" ->
           << 118, 117, 108, 110, 101, 114, 97, 98, 105, 108, 105, 116, 105,
              101, 115 >>
      [] s = "iam_assessment" ->
           << 105, 97, 109, 95, 97, 115, 115, 101, 115, 115, 109, 101, 110,
              116 >>
      [] s = "backup_dr" ->
           << 98, 97, 99, 107, 117, 112, 95, 100, 114 >>
      [] s = "logging_monitoring" ->
           << 108, 111, 103, 103, 105, 110, 103, 95, 109, 111, 110, 105, 116,
              111, 114, 105, 110, 103 >>
      [] s = "" -> << >>

\* a <= b for two code point sequences that agree before position i
RECURSIVE SeqLE(_, _, _)
SeqLE(a, b, i) ==
    IF i > Len(a) THEN TRUE
    ELSE IF i > Len(b) THEN FALSE
    ELSE IF a[i] # b[i] THEN a[i] < b[i]
    ELSE SeqLE(a, b, i + 1)

\* a <= b for two Python strings
StrLE(a, b) == a = b \/ SeqLE(CodePoints(a), CodePoints(b), 1)

(***************************************************************************)
(* ScoringEngine.__init__                                                  *)
(***************************************************************************)

category_weights ==
    [ internet_exposure |-> 20, tls_security |-> 15, web_security |-> 15,
      email_security |-> 10, vulnerabilities |-> 25, iam_assessment |-> 8,
      backup_dr |-> 4, logging_monitoring |-> 3 ]

\* severity multipliers, in tenths
severity_multipliers10 ==
    [ critical |-> 10, high |-> 7, medium |-> 4, low |-> 1 ]

max_category_deduction ==
    [ internet_exposure |-> 20, tls_security |-> 15, web_security |-> 15,
      email_security |-> 10, vulnerabilities |-> 25, iam_assessment |-> 8,
      backup_dr |-> 4, logging_monitoring |-> 3 ]

ScoringEngine ==
    [ category_weights |-> category_weights,
      severity_multipliers10 |-> severity_multipliers10,
      max_category_deduction |-> max_category_deduction ]

Problem(category, issue, severity, description, impact) ==
    [ category |-> category, issue |-> issue, severity |-> severity,
      description |-> description, impact |-> impact ]

Recommendation(problem_id, recommendation, effort_estimate, steps) ==
    [ problem_id |-> problem_id, recommendation |-> recommendation,
      effort_estimate |-> effort_estimate, steps |-> steps ]

\* a scorer that keeps one point back whatever it found
ScoredOnePointShort(score, problems, recommendations) ==
    [ score |-> score - 1, problems |-> problems,
      recommendations |-> recommendations ]

Scored(score, problems, recommendations) ==
    [ score |-> score, problems |-> problems,
      recommendations |-> recommendations ]

(***************************************************************************)
(* The eight category scorers                                              *)
(***************************************************************************)

\* the scorer taking the points of a high-risk port for plain HTTP
score_internet_exposure_http_as_high_risk(result, max_weight) ==
    LET open_ports == Get(result, "open_ports", << >>)
        has443 == AnyOf(open_ports, LAMBDA p : Get(p, "port", NoPort) = 443)
        HighRisk(port) == port \in {21, 23, 135, 139, 445, 1433, 3389}
        PlainHttp(port) == port \in {80, 8080} /\ ~has443
        perPort ==
            [ i \in 1..Len(open_ports) |->
                LET port == Get(open_ports[i], "port", NoPort)
                    service == Get(open_ports[i], "service", "unknown")
                IN  IF HighRisk(port)
                    THEN [ d |-> 4,
                           p |-> << Problem("internet_exposure",
                                   "High-risk port " \o ToString(port) \o " ("
                                       \o service \o ") is open",
                                   "high",
                                   "Port " \o ToString(port) \o " running "
                                       \o service
                                       \o " is accessible from the internet",
                                   "Potential unauthorized access and exploitation") >> ]
                    ELSE IF PlainHttp(port)
                    THEN [ d |-> 4,
                           p |-> << Problem("internet_exposure",
                                   "HTTP service on port " \o ToString(port)
                                       \o " without HTTPS",
                                   "medium",
                                   "Unencrypted web service detected",
                                   "Data transmitted in plain text") >> ]
                    ELSE [ d |-> 0, p |-> << >> ] ]
        deductions == SumSeq([ i \in 1..Len(open_ports) |-> perPort[i].d ])
        problems == ConcatSeq([ i \in 1..Len(open_ports) |-> perPort[i].p ])
        recommendations ==
            IF AnyOf(open_ports, LAMBDA p : Get(p, "port", NoPort) \in {21, 23})
            THEN << Recommendation("insecure_protocols",
                      "Disable insecure protocols (FTP, Telnet) and use secure alternatives",
                      "Medium",
                      << "Identify services using insecure protocols",
                         "Migrate to secure alternatives (SFTP, SSH)",
                         "Update firewall rules to block insecure ports",
                         "Verify secure configuration" >>) >>
            ELSE << >>
    IN  Scored(Max(0, max_weight - deductions), problems, recommendations)

score_internet_exposure(result, max_weight) ==
    LET open_ports == Get(result, "open_ports", << >>)
        has443 == AnyOf(open_ports, LAMBDA p : Get(p, "port", NoPort) = 443)
        HighRisk(port) == port \in {21, 23, 135, 139, 445, 1433, 3389}
        PlainHttp(port) == port \in {80, 8080} /\ ~has443
        perPort ==
            [ i \in 1..Len(open_ports) |->
                LET port == Get(open_ports[i], "port", NoPort)
                    service == Get(open_ports[i], "service", "unknown")
                IN  IF HighRisk(port)
                    THEN [ d |-> 4,
                           p |-> << Problem("internet_exposure",
                                   "High-risk port " \o ToString(port) \o " ("
                                       \o service \o ") is open",
                                   "high",
                                   "Port " \o ToString(port) \o " running "
                                       \o service
                                       \o " is accessible from the internet",
                                   "Potential unauthorized access and exploitation") >> ]
                    ELSE IF PlainHttp(port)
                    THEN [ d |-> 2,
                           p |-> << Problem("internet_exposure",
                                   "HTTP service on port " \o ToString(port)
                                       \o " without HTTPS",
                                   "medium",
                                   "Unencrypted web service detected",
                                   "Data transmitted in plain text") >> ]
                    ELSE [ d |-> 0, p |-> << >> ] ]
        deductions == SumSeq([ i \in 1..Len(open_ports) |-> perPort[i].d ])
        problems == ConcatSeq([ i \in 1..Len(open_ports) |-> perPort[i].p ])
        recommendations ==
            IF AnyOf(open_ports, LAMBDA p : Get(p, "port", NoPort) \in {21, 23})
            THEN << Recommendation("insecure_protocols",
                      "Disable insecure protocols (FTP, Telnet) and use secure alternatives",
                      "Medium",
                      << "Identify services using insecure protocols",
                         "Migrate to secure alternatives (SFTP, SSH)",
                         "Update firewall rules to block insecure ports",
                         "Verify secure configuration" >>) >>
            ELSE << >>
    IN  Scored(Max(0, max_weight - deductions), problems, recommendations)

\* the problems and deductions a scorer takes from result["vulnerabilities"]:
\* one problem per entry, points by severity
VulnProblems(category, vulnerabilities, defType, defDescription, impact) ==
    [ i \in 1..Len(vulnerabilities) |->
        Problem(category,
                Get(vulnerabilities[i], "type", defType),
                Get(vulnerabilities[i], "severity", "low"),
                Get(vulnerabilities[i], "description", defDescription),
                impact) ]

VulnDeductions(vulnerabilities, points) ==
    SumSeq([ i \in 1..Len(vulnerabilities) |->
               Get(points, Get(vulnerabilities[i], "severity", "low"), 0) ])

score_tls_security(result, max_weight) ==
    LET tls_versions == Get(result, "tls_versions", << >>)
        certificate == Get(result, "certificate", EmptyDict)
        vulnerabilities == Get(result, "vulnerabilities", << >>)
        weak == AnyOf(tls_versions, LAMBDA v : v = "TLSv1.0")
                \/ AnyOf(tls_versions, LAMBDA v : v = "TLSv1.1")
        days_until_expiry == Get(certificate, "days_until_expiry", 365)
        expired == Truthy(certificate) /\ days_until_expiry < 0
        expiring == Truthy(certificate) /\ ~(days_until_expiry < 0)
                    /\ days_until_expiry < 30
        problems ==
            (IF weak
             THEN << Problem("tls_security", "Outdated TLS versions supported",
                       "high", "TLS 1.0/1.1 are deprecated and vulnerable",
                       "Potential for man-in-the-middle attacks") >>
             ELSE << >>)
            \o (IF expired
                THEN << Problem("tls_security", "SSL certificate expired",
                          "critical", "SSL certificate has expired",
                          "Service unavailable, security warnings") >>
                ELSE IF expiring
                THEN << Problem("tls_security", "SSL certificate expiring soon",
                          "medium",
                          "Certificate expires in "
                              \o ToString(days_until_expiry) \o " days",
                          "Potential service disruption") >>
                ELSE << >>)
            \o VulnProblems("tls_security", vulnerabilities,
                            "TLS vulnerability", "TLS security issue detected",
                            "Encryption weakness")
        deductions ==
            (IF weak THEN 6 ELSE 0)
            + (IF expired THEN 8 ELSE IF expiring THEN 3 ELSE 0)
            + VulnDeductions(vulnerabilities,
                             [ critical |-> 5, high |-> 3, medium |-> 1 ])
        recommendations ==
            IF problems # << >>
            THEN << Recommendation("tls_security_issues",
                      "Update TLS configuration and certificates", "Low",
                      << "Disable TLS 1.0 and 1.1",
                         "Enable only TLS 1.2 and 1.3",
                         "Renew SSL certificates before expiry",
                         "Test configuration with SSL testing tools" >>) >>
            ELSE << >>
    IN  Scored(Max(0, max_weight - deductions), problems, recommendations)

score_web_security(result, max_weight) ==
    LET security_score == Get(result, "security_score", 0)
        missing_headers == Get(result, "missing_headers", << >>)
        vulnerabilities == Get(result, "vulnerabilities", << >>)
        \* int(max_weight * (security_score / 100))
        base_score == IntTrunc(max_weight * security_score, 100)
        problems ==
            ConcatSeq([ i \in 1..Len(missing_headers) |->
                IF missing_headers[i] \in {"HSTS", "CSP"}
                THEN << Problem("web_security",
                          "Missing " \o missing_headers[i] \o " header",
                          "medium",
                          missing_headers[i]
                              \o " security header not implemented",
                          "Reduced web application security") >>
                ELSE << >> ])
            \o VulnProblems("web_security", vulnerabilities,
                            "Web security issue", "Web security vulnerability",
                            "Web application security weakness")
        recommendations ==
            IF missing_headers # << >> \/ vulnerabilities # << >>
            THEN << Recommendation("web_security_headers",
                      "Implement comprehensive security headers", "Low",
                      << "Configure Content Security Policy (CSP)",
                         "Enable HSTS with appropriate max-age",
                         "Set X-Frame-Options to DENY or SAMEORIGIN",
                         "Add X-Content-Type-Options: nosniff" >>) >>
            ELSE << >>
    IN  Scored(base_score, problems, recommendations)

score_email_security(result, max_weight) ==
    LET spf == Get(result, "spf", EmptyDict)
        dkim == Get(result, "dkim", EmptyDict)
        dmarc == Get(result, "dmarc", EmptyDict)
        vulnerabilities == Get(result, "vulnerabilities", << >>)
        noSpf == ~Truthy(spf) \/ ~Get(spf, "exists", FALSE)
        noDkim == ~Truthy(dkim) \/ Get(dkim, "selectors_found", << >>) = << >>
        noDmarc == ~Truthy(dmarc) \/ ~Get(dmarc, "exists", FALSE)
        problems ==
            (IF noSpf
             THEN << Problem("email_security", "SPF record not configured",
                       "medium", "No SPF record found for domain",
                       "Email spoofing vulnerability") >>
             ELSE << >>)
            \o (IF noDkim
                THEN << Problem("email_security", "DKIM not configured",
                          "medium", "No DKIM selectors found",
                          "Email authenticity cannot be verified") >>
                ELSE << >>)
            \o (IF noDmarc
                THEN << Problem("email_security", "DMARC policy not configured",
                          "medium", "No DMARC record found",
                          "Email domain abuse vulnerability") >>
                ELSE << >>)
            \o VulnProblems("email_security", vulnerabilities,
                            "Email security issue",
                            "Email authentication issue",
                            "Email security weakness")
        deductions ==
            (IF noSpf THEN 3 ELSE 0) + (IF noDkim THEN 3 ELSE 0)
            + (IF noDmarc THEN 4 ELSE 0)
            + VulnDeductions(vulnerabilities, [ high |-> 2, medium |-> 1 ])
        recommendations ==
            IF problems # << >>
            THEN << Recommendation("email_authentication",
                      "Implement comprehensive email authentication", "Medium",
                      << "Configure SPF record with appropriate policy",
                         "Set up DKIM signing for outbound emails",
                         "Implement DMARC policy starting with p=none",
                         "Monitor DMARC reports and gradually strengthen policy" >>) >>
            ELSE << >>
    IN  Scored(Max(0, max_weight - deductions), problems, recommendations)

score_vulnerabilities(result, max_weight) ==
    LET vulnerabilities == Get(result, "vulnerabilities", << >>)
        risk_summary == Get(result, "risk_summary", EmptyDict)
        critical_count == Get(risk_summary, "critical", 0)
        high_count == Get(risk_summary, "high", 0)
        medium_count == Get(risk_summary, "medium", 0)
        low_count == Get(risk_summary, "low", 0)
        \* deductions in halves: 8, 4, 2 and 0.5 points
        deductions2 == critical_count * 16 + high_count * 8
                       + medium_count * 4 + low_count
        problems ==
            [ i \in 1..Len(vulnerabilities) |->
                Problem("vulnerabilities",
                        "CVE " \o Get(vulnerabilities[i], "cve_id", "Unknown")
                            \o " detected",
                        Get(vulnerabilities[i], "severity", "medium"),
                        Get(vulnerabilities[i], "description",
                            "Known vulnerability detected"),
                        "Potential for exploitation and system compromise") ]
        recommendations ==
            IF critical_count > 0 \/ high_count > 0
            THEN << Recommendation("critical_vulnerabilities",
                      "Immediately patch critical and high severity vulnerabilities",
                      "High",
                      << "Prioritize critical vulnerabilities for immediate patching",
                         "Test patches in staging environment",
                         "Apply patches to production systems",
                         "Verify vulnerability remediation with rescanning" >>) >>
            ELSE << >>
    IN  Scored(Max(0, max_weight - IntTrunc(deductions2, 2)), problems,
               recommendations)

score_iam_assessment(result, max_weight) ==
    LET admin_interfaces == Get(result, "admin_interfaces", << >>)
        vulnerabilities == Get(result, "vulnerabilities", << >>)
        perInterface ==
            [ i \in 1..Len(admin_interfaces) |->
                LET interface == admin_interfaces[i]
                    noAuth == ~Get(interface, "authentication_required", FALSE)
                    noMfa == ~Get(interface, "mfa_detected", FALSE)
                IN  [ d |-> (IF noAuth THEN 6 ELSE 0) + (IF noMfa THEN 2 ELSE 0),
                      p |-> (IF noAuth
                             THEN << Problem("iam_assessment",
                                       "Exposed admin interface", "critical",
                                       "Admin interface accessible without authentication: "
                                           \o Get(interface, "url", "None"),
                                       "Unauthorized administrative access") >>
                             ELSE << >>)
                            \o (IF noMfa
                                THEN << Problem("iam_assessment",
                                          "Missing multi-factor authentication",
                                          "medium",
                                          "Admin interface lacks MFA protection",
                                          "Increased risk of credential compromise") >>
                                ELSE << >>) ] ]
        problems ==
            ConcatSeq([ i \in 1..Len(admin_interfaces) |-> perInterface[i].p ])
            \o VulnProblems("iam_assessment", vulnerabilities,
                            "IAM security issue",
                            "Access control vulnerability",
                            "Unauthorized access risk")
        deductions ==
            SumSeq([ i \in 1..Len(admin_interfaces) |-> perInterface[i].d ])
            + VulnDeductions(vulnerabilities,
                             [ critical |-> 4, high |-> 2, medium |-> 1 ])
        recommendations ==
            IF problems # << >>
            THEN << Recommendation("iam_security",
                      "Strengthen access controls and authentication", "Medium",
                      << "Implement MFA for all admin interfaces",
                         "Restrict admin access by IP whitelist",
                         "Regular access reviews and cleanup",
                         "Implement principle of least privilege" >>) >>
            ELSE << >>
    IN  Scored(Max(0, max_weight - deductions), problems, recommendations)

score_backup_dr(result, max_weight) ==
    LET exposed_backups == Get(result, "exposed_backups", << >>)
        config_files == Get(result, "config_files", << >>)
        vulnerabilities == Get(result, "vulnerabilities", << >>)
        problems ==
            [ i \in 1..Len(exposed_backups) |->
                Problem("backup_dr", "Exposed backup file", "critical",
                        "Backup file publicly accessible: "
                            \o Get(exposed_backups[i], "url", "None"),
                        "Data exposure and potential system compromise") ]
            \o [ i \in 1..Len(config_files) |->
                Problem("backup_dr", "Exposed configuration file", "critical",
                        "Configuration file publicly accessible: "
                            \o Get(config_files[i], "url", "None"),
                        "Sensitive configuration data exposure") ]
            \o VulnProblems("backup_dr", vulnerabilities,
                            "Backup security issue", "Backup/DR security issue",
                            "Data protection weakness")
        deductions ==
            2 * Len(exposed_backups) + 2 * Len(config_files)
            + VulnDeductions(vulnerabilities, [ critical |-> 2, high |-> 1 ])
        recommendations ==
            IF problems # << >>
            THEN << Recommendation("backup_security",
                      "Secure backup files and configuration", "Low",
                      << "Remove backup files from public directories",
                         "Implement proper backup storage security",
                         "Use encrypted backup solutions",
                         "Regular backup security audits" >>) >>
            ELSE << >>
    IN  Scored(Max(0, max_weight - deductions), problems, recommendations)

score_security_monitoring(result, max_weight) ==
    LET waf_detected == Get(result, "waf_detected", FALSE)
        ddos_protection == Get(result, "ddos_protection", FALSE)
        rate_limiting == Get(result, "rate_limiting", FALSE)
        security_tools == Get(result, "security_tools", << >>)
        problems ==
            (IF ~waf_detected
             THEN << Problem("logging_monitoring", "No WAF detected", "low",
                       "Web Application Firewall not detected",
                       "Reduced protection against web attacks") >>
             ELSE << >>)
            \o (IF ~ddos_protection
                THEN << Problem("logging_monitoring",
                          "No DDoS protection detected", "low",
                          "DDoS protection mechanisms not detected",
                          "Vulnerability to denial of service attacks") >>
                ELSE << >>)
            \o (IF ~rate_limiting
                THEN << Problem("logging_monitoring",
                          "No rate limiting detected", "low",
                          "Rate limiting not implemented",
                          "Vulnerability to abuse and DoS attacks") >>
                ELSE << >>)
        score == max_weight - (IF ~waf_detected THEN 1 ELSE 0)
                 - (IF ~ddos_protection THEN 1 ELSE 0)
                 - (IF ~rate_limiting THEN 1 ELSE 0)
        recommendations ==
            IF security_tools = << >>
            THEN << Recommendation("security_monitoring",
                      "Implement comprehensive security monitoring", "High",
                      << "Deploy Web Application Firewall (WAF)",
                         "Implement DDoS protection",
                         "Configure rate limiting",
                         "Set up security event monitoring and alerting" >>) >>
            ELSE << >>
    IN  Scored(Max(0, score), problems, recommendations)

score_category(category, category_result, max_weight) ==
    CASE category = "internet_exposure" ->
           score_internet_exposure(category_result, max_weight)
      [] category = "tls_security" ->
           score_tls_security(category_result, max_weight)
      [] category = "web_security" ->
           score_web_security(category_result, max_weight)
      [] category = "email_security" ->
           score_email_security(category_result, max_weight)
      [] category = "vulnerabilities" ->
           score_vulnerabilities(category_result, max_weight)
      [] category = "iam_assessment" ->
           score_iam_assessment(category_result, max_weight)
      [] category = "backup_dr" ->
           score_backup_dr(category_result, max_weight)
      [] category = "logging_monitoring" ->
           score_security_monitoring(category_result, max_weight)
      [] OTHER -> Scored(max_weight, << >>, << >>)

(***************************************************************************)
(* _prioritize_problems, _consolidate_recommendations, _generate_summary   *)
(***************************************************************************)

severity_order == [ critical |-> 0, high |-> 1, medium |-> 2, low |-> 3 ]

\* the sort key without the category
SortKeySeverityOnly(x) ==
    << Get(severity_order, Get(x, "severity", "low"), 3), "" >>

\* the sort key of _prioritize_problems: a tuple, compared element by element
SortKey(x) ==
    << Get(severity_order, Get(x, "severity", "low"), 3),
       Get(x, "category", "") >>

KeyLE(k, l) == k[1] < l[1] \/ (k[1] = l[1] /\ StrLE(k[2], l[2]))

\* sorted(): the key is computed once for each element, and the sort is
\* stable: each element goes after the elements whose key is not greater
InsertByKey(s, x) ==
    LET n == Cardinality({ i \in 1..Len(s) : KeyLE(s[i].key, x.key) })
    IN  SubSeq(s, 1, n) \o << x >> \o SubSeq(s, n + 1, Len(s))

RECURSIVE SortDecorated(_, _)
SortDecorated(d, n) ==
    IF n = 0 THEN << >> ELSE InsertByKey(SortDecorated(d, n - 1), d[n])

SortedByKey(s) ==
    LET decorated == [ i \in 1..Len(s) |-> [ key |-> SortKey(s[i]), item |-> s[i] ] ]
        sorted == SortDecorated(decorated, Len(s))
    IN  [ i \in 1..Len(s) |-> sorted[i].item ]

prioritize_problems(problems) == SortedByKey(problems)

\* the loop of _consolidate_recommendations over the first k entries
RECURSIVE ConsolidateLoop(_, _)
ConsolidateLoop(recommendations, k) ==
    IF k = 0
    THEN [ seen_recommendations |-> {}, unique_recommendations |-> << >> ]
    ELSE LET prev == ConsolidateLoop(recommendations, k - 1)
             rec == recommendations[k]
             rec_key == Get(rec, "recommendation", "")
         IN  IF rec_key \notin prev.seen_recommendations
             THEN [ seen_recommendations |->
                        prev.seen_recommendations \cup { rec_key },
                    unique_recommendations |->
                        Append(prev.unique_recommendations, rec) ]
             ELSE prev

\* no entry dropped
consolidate_keeps_all(recommendations) == recommendations

consolidate_recommendations(recommendations) ==
    ConsolidateLoop(recommendations, Len(recommendations)).unique_recommendations

CountSeverity(problems, severity) ==
    Cardinality({ i \in 1..Len(problems) :
                    Get(problems[i], "severity", "low") = severity })

generate_summary(self, results, category_scores10, problems) ==
    LET total_categories == Cardinality(DOMAIN self.category_weights)
        completed_categories ==
            Cardinality({ c \in DOMAIN results :
                            Get(results[c], "status", "None") = "completed" })
        failed_categories == total_categories - completed_categories
    IN  [ categories_scanned |-> total_categories,
          categories_completed |-> completed_categories,
          categories_failed |-> failed_categories,
          total_issues_found |-> Len(problems),
          critical_issues |-> CountSeverity(problems, "critical"),
          high_issues |-> CountSeverity(problems, "high"),
          medium_issues |-> CountSeverity(problems, "medium"),
          low_issues |-> CountSeverity(problems, "low") ]

(***************************************************************************)
(* ScoringEngine.calculate_score                                           *)
(***************************************************************************)

\* the loop with the two factors of the else branch exchanged
RECURSIVE ScoreLoopSwapped(_, _, _)
ScoreLoopSwapped(self, results, k) ==
    IF k = 0
    THEN [ total_score10 |-> 1000, all_problems |-> << >>,
           all_recommendations |-> << >>, category_scores10 |-> EmptyDict,
           deducted10 |-> EmptyDict ]
    ELSE LET prev == ScoreLoopSwapped(self, results, k - 1)
             category == CategoryOrder[k]
             weight == self.category_weights[category]
             category_result == Get(results, category, EmptyDict)
         IN  IF Get(category_result, "status", "None") = "completed"
             THEN LET scored == score_category(category, category_result, weight)
                      deduction ==
                          Min(weight - scored.score,
                              self.max_category_deduction[category])
                  IN  [ total_score10 |-> prev.total_score10 - 10 * deduction,
                        all_problems |-> prev.all_problems \o scored.problems,
                        all_recommendations |->
                            prev.all_recommendations \o scored.recommendations,
                        category_scores10 |->
                            prev.category_scores10
                                @@ (category :> 10 * scored.score),
                        deducted10 |->
                            prev.deducted10 @@ (category :> 10 * deduction) ]
             ELSE [ total_score10 |-> prev.total_score10 - 8 * weight,
                    all_problems |-> prev.all_problems,
                    all_recommendations |-> prev.all_recommendations,
                    category_scores10 |->
                        prev.category_scores10 @@ (category :> 2 * weight),
                    deducted10 |-> prev.deducted10 @@ (category :> 8 * weight) ]

\* the for loop of calculate_score after its first k iterations.
\* deducted10 records what each iteration subtracted from total_score.
RECURSIVE ScoreLoop(_, _, _)
ScoreLoop(self, results, k) ==
    IF k = 0
    THEN [ total_score10 |-> 1000, all_problems |-> << >>,
           all_recommendations |-> << >>, category_scores10 |-> EmptyDict,
           deducted10 |-> EmptyDict ]
    ELSE LET prev == ScoreLoop(self, results, k - 1)
             category == CategoryOrder[k]
             weight == self.category_weights[category]
             category_result == Get(results, category, EmptyDict)
         IN  IF Get(category_result, "status", "None") = "completed"
             THEN LET scored == score_category(category, category_result, weight)
                      deduction ==
                          Min(weight - scored.score,
                              self.max_category_deduction[category])
                  IN  [ total_score10 |-> prev.total_score10 - 10 * deduction,
                        all_problems |-> prev.all_problems \o scored.problems,
                        all_recommendations |->
                            prev.all_recommendations \o scored.recommendations,
                        category_scores10 |->
                            prev.category_scores10
                                @@ (category :> 10 * scored.score),
                        deducted10 |->
                            prev.deducted10 @@ (category :> 10 * deduction) ]
             ELSE [ total_score10 |-> prev.total_score10 - 2 * weight,
                    all_problems |-> prev.all_problems,
                    all_recommendations |-> prev.all_recommendations,
                    category_scores10 |->
                        prev.category_scores10 @@ (category :> 8 * weight),
                    deducted10 |-> prev.deducted10 @@ (category :> 2 * weight) ]

\* total_score is a double.  Its value differs from the exact sum only when
\* the last three categories (weights 8, 4, 3) all take the else branch:
\* ((x - 1.6) - 0.8) - 0.6000000000000001 falls just below x - 3 for the
\* whole numbers x listed here (x is exact: the first five categories
\* subtract whole numbers), and int() then truncates to x - 4.  The list
\* is complete for 3 <= x <= 257.
DoubleFallsShort(x10, results) ==
    /\ \A k \in 6..8 :
          Get(Get(results, CategoryOrder[k], EmptyDict), "status", "None")
              # "completed"
    /\ x10 \in { 40, 50 } \cup { 10 * x : x \in 18..34 }

\* int(total_score), from the state of the loop after its last iteration
IntOfTotal(loop, results) ==
    LET x10 == 1000 - SumSeq([ k \in 1..5 |->
                                 loop.deducted10[CategoryOrder[k]] ])
    IN  IntTrunc(loop.total_score10, 10)
        - (IF DoubleFallsShort(x10, results) THEN 1 ELSE 0)

\* the score without its bounds
FinalScoreUnclamped(int_total) == int_total

\* max(0, min(100, int(total_score)))
FinalScore(int_total) == Max(0, Min(100, int_total))

\* the locals of calculate_score when it returns
CalculateScoreLocals(self, results) ==
    LET loop == ScoreLoop(self, results, Len(CategoryOrder))
        int_total == IntOfTotal(loop, results)
        sorted_problems == prioritize_problems(loop.all_problems)
    IN  [ total_score10 |-> loop.total_score10,
          int_total |-> int_total,
          all_problems |-> loop.all_problems,
          all_recommendations |-> loop.all_recommendations,
          category_scores10 |-> loop.category_scores10,
          deducted10 |-> loop.deducted10,
          final_score |-> FinalScore(int_total),
          sorted_problems |-> sorted_problems,
          unique_recommendations |->
              consolidate_recommendations(loop.all_recommendations),
          summary |-> generate_summary(self, results, loop.category_scores10,
                                       sorted_problems) ]

\* the tuple calculate_score returns
ReturnValue(l) ==
    [ score |-> l.final_score, problems |-> l.sorted_problems,
      recommendations |-> l.unique_recommendations, summary |-> l.summary ]

(***************************************************************************)
(* The category maps and helper arguments the scoring engine is run on     *)
(***************************************************************************)

\* instances of ScoringEngine
NumEngines == 2
\* longest vulnerabilities list of a payload
MaxVulns == 3
\* longest list handed directly to _prioritize_problems
MaxProblems == 3
\* longest list handed directly to _consolidate_recommendations
MaxRecs == 3

Engines == 1..NumEngines

Severities == << "critical", "high", "medium", "low", "unknown" >>

\* n findings whose severities run through Severities from position first
Vulns(kind, first, n) ==
    [ i \in 1..n |->
        [ type |-> kind,
          severity |-> Severities[((first + i - 2) % Len(Severities)) + 1],
          description |-> kind \o " found" ] ]

Cves(first, n) ==
    [ i \in 1..n |->
        [ cve_id |-> "CVE-2024-000" \o ToString(i),
          severity |-> Severities[((first + i - 2) % Len(Severities)) + 1],
          description |-> "known vulnerability" ] ]

Port(port, service) ==
    [ port |-> port, protocol |-> "tcp", service |-> service,
      state |-> "open", method |-> "socket_connect" ]

Completed(payload) ==
    [ status |-> "completed", scan_duration |-> "1.5 seconds" ] @@ payload

\* what BaseScanner.create_result("failed", note=...) builds
Failed(note) ==
    [ status |-> "failed", scan_duration |-> "30.0 seconds", note |-> note ]

\* a failed entry that still carries findings
FailedWith(note, payload) == Failed(note) @@ payload

\* no entry for the category
Absent == [ absent |-> TRUE ]

NoteTimeout == "Data not obtained; port scanning timed out after 30 seconds"
NoteNotPossible == "Scanning not possible; domain does not exist"

ExposureClean == [ open_ports |-> << >> ]
ExposureWorst ==
    [ open_ports |-> << Port(21, "ftp"), Port(23, "telnet"),
                        Port(135, "msrpc"), Port(139, "netbios-ssn"),
                        Port(445, "microsoft-ds"), Port(3389, "rdp") >> ]
ExposureOptions ==
    { Absent, Failed(NoteTimeout), FailedWith(NoteNotPossible, ExposureWorst),
      Completed(ExposureClean), Completed(ExposureWorst),
      Completed([ open_ports |-> << Port(22, "ssh"), Port(80, "http") >> ]),
      Completed([ open_ports |-> << Port(80, "http"), Port(443, "https"),
                                    Port(8080, "http-proxy") >> ]),
      Completed([ open_ports |-> << Port(21, "ftp"), Port(8080, "http-proxy") >> ]) }

TlsClean ==
    [ tls_versions |-> << "TLSv1.2", "TLSv1.3" >>,
      certificate |-> [ days_until_expiry |-> 200 ],
      vulnerabilities |-> << >> ]
TlsWorst ==
    [ tls_versions |-> << "TLSv1.0", "TLSv1.1", "TLSv1.2" >>,
      certificate |-> [ days_until_expiry |-> -5 ],
      vulnerabilities |-> Vulns("weak_tls_version", 1, MaxVulns) ]
TlsOptions ==
    { Absent, Failed(NoteTimeout), FailedWith(NoteNotPossible, TlsWorst),
      Completed(TlsClean), Completed(TlsWorst),
      Completed([ tls_versions |-> << "TLSv1.0", "TLSv1.2" >>,
                  certificate |-> [ days_until_expiry |-> 10 ],
                  vulnerabilities |-> Vulns("weak_tls_version", 3, 1) ]),
      Completed([ tls_versions |-> << "TLSv1.3" >>,
                  vulnerabilities |-> Vulns("missing_hsts", 4, 2) ]) }

WebClean ==
    [ security_score |-> 100, missing_headers |-> << >>,
      vulnerabilities |-> << >> ]
WebWorst ==
    [ security_score |-> 0, missing_headers |-> << "HSTS", "CSP", "X-Frame-Options" >>,
      vulnerabilities |-> Vulns("insecure_cookie", 2, MaxVulns) ]
WebOptions ==
    { Absent, Failed(NoteTimeout), FailedWith(NoteNotPossible, WebWorst),
      Completed(WebClean), Completed(WebWorst),
      Completed([ security_score |-> 55, missing_headers |-> << "CSP" >>,
                  vulnerabilities |-> Vulns("server_disclosure", 4, 1) ]),
      Completed([ security_score |-> 250, missing_headers |-> << >>,
                  vulnerabilities |-> << >> ]),
      Completed([ security_score |-> -50, missing_headers |-> << "HSTS" >>,
                  vulnerabilities |-> << >> ]) }

EmailClean ==
    [ spf |-> [ exists |-> TRUE ], dkim |-> [ selectors_found |-> << "default" >> ],
      dmarc |-> [ exists |-> TRUE ], vulnerabilities |-> << >> ]
EmailWorst ==
    [ spf |-> [ exists |-> FALSE ], dkim |-> [ selectors_found |-> << >> ],
      dmarc |-> EmptyDict, vulnerabilities |-> Vulns("weak_spf", 2, MaxVulns) ]
EmailOptions ==
    { Absent, Failed(NoteNotPossible), FailedWith(NoteTimeout, EmailWorst),
      Completed(EmailClean), Completed(EmailWorst),
      Completed([ spf |-> [ exists |-> TRUE ], dkim |-> EmptyDict,
                  dmarc |-> [ exists |-> TRUE ],
                  vulnerabilities |-> Vulns("weak_dmarc", 5, 1) ]) }

CveClean ==
    [ vulnerabilities |-> << >>,
      risk_summary |-> [ critical |-> 0, high |-> 0, medium |-> 0, low |-> 0 ] ]
CveWorst ==
    [ vulnerabilities |-> Cves(1, MaxVulns + 1),
      risk_summary |-> [ critical |-> MaxVulns + 1, high |-> 0, medium |-> 0,
                         low |-> 0 ] ]
CveOptions ==
    { Absent, Failed(NoteTimeout), FailedWith(NoteNotPossible, CveWorst),
      Completed(CveClean), Completed(CveWorst),
      Completed([ vulnerabilities |-> Cves(2, 3),
                  risk_summary |-> [ critical |-> 0, high |-> 1, medium |-> 1,
                                     low |-> 1 ] ]),
      Completed([ vulnerabilities |-> Cves(4, 2),
                  risk_summary |-> [ critical |-> 0, high |-> 0, medium |-> 0,
                                     low |-> 3 ] ]) }

IamClean == [ admin_interfaces |-> << >>, vulnerabilities |-> << >> ]
IamWorst ==
    [ admin_interfaces |->
          << [ url |-> "/admin", authentication_required |-> FALSE,
               mfa_detected |-> FALSE ] >>,
      vulnerabilities |-> Vulns("default_credentials", 1, MaxVulns) ]
IamOptions ==
    { Absent, Failed(NoteTimeout), FailedWith(NoteNotPossible, IamWorst),
      Completed(IamClean), Completed(IamWorst),
      Completed([ admin_interfaces |->
                      << [ url |-> "/login", authentication_required |-> TRUE,
                           mfa_detected |-> FALSE ] >>,
                  vulnerabilities |-> << >> ]) }

BackupClean ==
    [ exposed_backups |-> << >>, config_files |-> << >>,
      vulnerabilities |-> << >> ]
BackupWorst ==
    [ exposed_backups |-> << [ url |-> "/backup.zip" ] >>,
      config_files |-> << [ url |-> "/.env" ], [ url |-> "/config.php" ] >>,
      vulnerabilities |-> Vulns("directory_listing", 1, MaxVulns) ]
BackupOptions ==
    { Absent, Failed(NoteTimeout), FailedWith(NoteNotPossible, BackupWorst),
      Completed(BackupClean), Completed(BackupWorst),
      Completed([ exposed_backups |-> << >>, config_files |-> << >>,
                  vulnerabilities |-> Vulns("directory_listing", 2, 1) ]) }

MonitoringClean ==
    [ waf_detected |-> TRUE, ddos_protection |-> TRUE, rate_limiting |-> TRUE,
      security_tools |-> << "cloudflare" >> ]
MonitoringWorst ==
    [ waf_detected |-> FALSE, ddos_protection |-> FALSE,
      rate_limiting |-> FALSE, security_tools |-> << >> ]
MonitoringOptions ==
    { Absent, Failed(NoteTimeout), FailedWith(NoteNotPossible, MonitoringWorst),
      Completed(MonitoringClean), Completed(MonitoringWorst),
      Completed([ waf_detected |-> TRUE, ddos_protection |-> FALSE,
                  rate_limiting |-> TRUE, security_tools |-> << >> ]) }

Options(category) ==
    CASE category = "internet_exposure" -> ExposureOptions
      [] category = "tls_security" -> TlsOptions
      [] category = "web_security" -> WebOptions
      [] category = "email_security" -> EmailOptions
      [] category = "vulnerabilities" -> CveOptions
      [] category = "iam_assessment" -> IamOptions
      [] category = "backup_dr" -> BackupOptions
      [] category = "logging_monitoring" -> MonitoringOptions

\* the map with one entry per category of a choice that is not Absent
MakeMap(choice) ==
    [ c \in { c \in Categories : choice[c] # Absent } |-> choice[c] ]

Choice(ie, tls, web, email, cve, iam, backup, mon) ==
    [ internet_exposure |-> ie, tls_security |-> tls, web_security |-> web,
      email_security |-> email, vulnerabilities |-> cve,
      iam_assessment |-> iam, backup_dr |-> backup,
      logging_monitoring |-> mon ]

\* every combination of a stale failure and the worst result
CoreChoices ==
    { Choice(ie, tls, web, email, cve, iam, backup, mon) :
        ie \in { FailedWith(NoteNotPossible, ExposureWorst),
                 Completed(ExposureWorst) },
        tls \in { FailedWith(NoteNotPossible, TlsWorst), Completed(TlsWorst) },
        web \in { FailedWith(NoteNotPossible, WebWorst), Completed(WebWorst) },
        email \in { FailedWith(NoteTimeout, EmailWorst),
                    Completed(EmailWorst) },
        cve \in { FailedWith(NoteNotPossible, CveWorst), Completed(CveWorst) },
        iam \in { FailedWith(NoteNotPossible, IamWorst), Completed(IamWorst) },
        backup \in { FailedWith(NoteNotPossible, BackupWorst),
                     Completed(BackupWorst) },
        mon \in { FailedWith(NoteNotPossible, MonitoringWorst),
                  Completed(MonitoringWorst) } }

AllClean ==
    Choice(Completed(ExposureClean), Completed(TlsClean), Completed(WebClean),
           Completed(EmailClean), Completed(CveClean), Completed(IamClean),
           Completed(BackupClean), Completed(MonitoringClean))

AllWorst ==
    Choice(Completed(ExposureWorst), Completed(TlsWorst), Completed(WebWorst),
           Completed(EmailWorst), Completed(CveWorst), Completed(IamWorst),
           Completed(BackupWorst), Completed(MonitoringWorst))

AllAbsent == [ c \in Categories |-> Absent ]

\* the worst results with the last three categories failed
WorstAndFailed ==
    [ AllWorst EXCEPT !["iam_assessment"] = Failed(NoteTimeout),
                      !["backup_dr"] = Failed(NoteTimeout),
                      !["logging_monitoring"] = Failed(NoteTimeout) ]

\* a base choice with any two categories replaced by any of their options
PairChoices ==
    UNION { { [ base EXCEPT ![c1] = o1, ![c2] = o2 ] :
                o1 \in Options(c1), o2 \in Options(c2) } :
            base \in { AllClean, WorstAndFailed },
            c1 \in Categories, c2 \in Categories }

\* a base choice with one category replaced by any of its options
SingleChoices ==
    UNION { { [ base EXCEPT ![c] = o ] : o \in Options(c) } :
            base \in { AllWorst, AllAbsent }, c \in Categories }

CategoryMaps ==
    { MakeMap(choice) :
        choice \in CoreChoices \cup PairChoices \cup SingleChoices }

ProblemPool ==
    { Problem("web_security", "Missing CSP header", "medium", "d", "i"),
      Problem("backup_dr", "Exposed backup file", "critical", "d", "i"),
      Problem("vulnerabilities", "CVE CVE-2024-0001 detected", "unknown", "d", "i"),
      Problem("iam_assessment", "Exposed admin interface", "critical", "d", "i"),
      Problem("internet_exposure", "High-risk port 21 (ftp) is open", "high", "d", "i"),
      Problem("logging_monitoring", "No WAF detected", "low", "d", "i") }

RecommendationPool ==
    { Recommendation("tls_security_issues",
                     "Update TLS configuration and certificates", "Low", << >>),
      Recommendation("tls_renewal",
                     "Update TLS configuration and certificates", "High", << >>),
      Recommendation("backup_security",
                     "Secure backup files and configuration", "Low", << >>) }

SeqsUpTo(S, n) == UNION { [ 1..k -> S ] : k \in 0..n }

ProblemLists == SeqsUpTo(ProblemPool, MaxProblems)

RecommendationLists == SeqsUpTo(RecommendationPool, MaxRecs)

(***************************************************************************)
(* The scoring engine as a state machine: calls on two instances, and      *)
(* direct calls of the two list helpers                                    *)
(***************************************************************************)

OrchIdle == [ pc |-> "idle" ]
ExpoIdle == [ pc |-> "idle" ]
ProbeIdle == [ pc |-> "idle" ]
JobIdle == [ pc |-> "idle" ]
TlsIdle == [ pc |-> "idle" ]
LimiterIdle == [ pc |-> "idle" ]
PoolIdle == [ pc |-> "idle" ]

\* no direct helper call in this run
NoArg == [ fn |-> "none", arg |-> << >> ]

InitScore ==
    /\ engine = [ e \in Engines |-> ScoringEngine ]
    /\ report = [ e \in Engines |-> << >> ]
    /\ locals = [ e \in Engines |-> << >> ]
    /\ helper_out = << >>
    /\ \/ /\ scan_results \in CategoryMaps
          /\ helper_arg = NoArg
       \/ /\ scan_results = EmptyDict
          /\ helper_arg \in
               { [ fn |-> "prioritize_problems", arg |-> a ] :
                   a \in ProblemLists }
               \cup { [ fn |-> "consolidate_recommendations", arg |-> a ] :
                        a \in RecommendationLists }
    /\ orch = OrchIdle
    /\ expo = ExpoIdle
    /\ probe = ProbeIdle
    /\ job = JobIdle
    /\ tls_scanner = TlsIdle
    /\ limiter = LimiterIdle
    /\ pool = PoolIdle

\* calculate_score keeping the category scores in self.category_weights
calculate_score_on_self(e) ==
    LET l == CalculateScoreLocals(engine[e], scan_results)
    IN  /\ locals' = [ locals EXCEPT ![e] = << l >> ]
        /\ report' = [ report EXCEPT ![e] = << ReturnValue(l) >> ]
        /\ engine' = [ engine EXCEPT ![e].category_weights =
                         [ c \in Categories |->
                             IntTrunc(l.category_scores10[c], 10) ] ]
        /\ UNCHANGED << scan_results, helper_arg, helper_out, orch, expo,
                        probe, job, tls_scanner, limiter, pool >>

\* scoring_engine.calculate_score(scan_results) on instance e
calculate_score(e) ==
    LET l == CalculateScoreLocals(engine[e], scan_results)
    IN  /\ locals' = [ locals EXCEPT ![e] = << l >> ]
        /\ report' = [ report EXCEPT ![e] = << ReturnValue(l) >> ]
        /\ UNCHANGED << engine, scan_results, helper_arg, helper_out, orch,
                        expo, probe, job, tls_scanner, limiter, pool >>

\* a direct call of _prioritize_problems on a drawn list
prioritize_problems_call ==
    /\ helper_arg.fn = "prioritize_problems"
    /\ helper_out' = << prioritize_problems(helper_arg.arg) >>
    /\ UNCHANGED << engine, scan_results, report, locals, helper_arg, orch,
                    expo, probe, job, tls_scanner, limiter, pool >>

\* a direct call of _consolidate_recommendations on a drawn list
consolidate_recommendations_call ==
    /\ helper_arg.fn = "consolidate_recommendations"
    /\ helper_out' = << consolidate_recommendations(helper_arg.arg) >>
    /\ UNCHANGED << engine, scan_results, report, locals, helper_arg, orch,
                    expo, probe, job, tls_scanner, limiter, pool >>

NextScore ==
    \/ \E e \in Engines : calculate_score(e)
    \/ prioritize_problems_call
    \/ consolidate_recommendations_call

SpecScore == InitScore /\ [][NextScore]_vars

(***************************************************************************)
(* Properties of the scoring engine                                        *)
(***************************************************************************)

Returned(e) == report[e] # << >>

StatusOf(results, c) == Get(Get(results, c, EmptyDict), "status", "None")

\* C1: for every category map, the score calculate_score returns is a whole
\* number from 0 to 100.
C1_ScoreWithinBounds ==
    \A e \in Engines :
        Returned(e) => report[e][1].score \in 0..100

\* a call returned after the running total left 0..100: a web security_score
\* above 100 pushed it over 100
C1_Witness ==
    \E e \in Engines :
        /\ Returned(e)
        /\ locals[e][1].int_total > 100
        /\ "web_security" \in DOMAIN scan_results
        /\ scan_results["web_security"].security_score > 100

RecommendationIdOf(c) ==
    CASE c = "internet_exposure" -> "insecure_protocols"
      [] c = "tls_security" -> "tls_security_issues"
      [] c = "web_security" -> "web_security_headers"
      [] c = "email_security" -> "email_authentication"
      [] c = "vulnerabilities" -> "critical_vulnerabilities"
      [] c = "iam_assessment" -> "iam_security"
      [] c = "backup_dr" -> "backup_security"
      [] c = "logging_monitoring" -> "security_monitoring"

\* C5: a category whose entry has status failed gets the category score
\* 0.8 x weight, has exactly 0.2 x weight subtracted from the running total,
\* and contributes no problem and no recommendation, whatever its note and
\* whatever findings the entry still carries.
C5_FailedCategory ==
    \A e \in Engines :
        Returned(e) =>
            \A c \in Categories :
                StatusOf(scan_results, c) = "failed" =>
                    /\ locals[e][1].category_scores10[c] = 8 * category_weights[c]
                    /\ locals[e][1].deducted10[c] = 2 * category_weights[c]
                    /\ \A i \in 1..Len(report[e][1].problems) :
                          report[e][1].problems[i].category # c
                    /\ \A i \in 1..Len(report[e][1].recommendations) :
                          report[e][1].recommendations[i].problem_id
                              # RecommendationIdOf(c)

\* a call returned for a map with two failed entries that have different
\* notes, one of them still carrying findings
C5_Witness ==
    \E e \in Engines :
        /\ Returned(e)
        /\ \E c, d \in Categories :
              /\ StatusOf(scan_results, c) = "failed"
              /\ StatusOf(scan_results, d) = "failed"
              /\ scan_results[c].note # scan_results[d].note
              /\ "vulnerabilities" \in DOMAIN scan_results[c]
              /\ scan_results[c].vulnerabilities # << >>

\* C6: the score of every completed category lies between 0 and the
\* category's weight.
C6_CategoryScoreWithinWeight ==
    \A e \in Engines :
        Returned(e) =>
            \A c \in Categories :
                StatusOf(scan_results, c) = "completed" =>
                    /\ 0 <= locals[e][1].category_scores10[c]
                    /\ locals[e][1].category_scores10[c]
                           <= 10 * category_weights[c]

\* the four severity levels in the order of the report
SeverityLevels == << "critical", "high", "medium", "low" >>

LevelOf(severity) ==
    CHOOSE n \in 1..Len(SeverityLevels) : SeverityLevels[n] = severity

\* the category names in ascending order
CategoriesAscending ==
    << "backup_dr", "email_security", "iam_assessment", "internet_exposure",
       "logging_monitoring", "tls_security", "vulnerabilities", "web_security" >>

PlaceOf(category) ==
    CHOOSE n \in 1..Len(CategoriesAscending) : CategoriesAscending[n] = category

HasLevel(p) == \E n \in 1..Len(SeverityLevels) : SeverityLevels[n] = p.severity

\* a problem list in the order of the report: among the problems that have
\* one of the four severities, by severity, then by category name
InReportOrder(problems) ==
    \A i, j \in 1..Len(problems) :
        (i < j /\ HasLevel(problems[i]) /\ HasLevel(problems[j])) =>
            \/ LevelOf(problems[i].severity) < LevelOf(problems[j].severity)
            \/ /\ problems[i].severity = problems[j].severity
               /\ PlaceOf(problems[i].category) <= PlaceOf(problems[j].category)

\* C7: the problem list calculate_score returns is ordered by severity
\* (critical, high, medium, low) and, within a severity, by category name
\* ascending; sorting it again leaves it as it is.  The same holds of a list
\* _prioritize_problems returns when it is called directly.
C7_ProblemsPrioritized ==
    /\ \A e \in Engines :
          Returned(e) =>
              /\ InReportOrder(report[e][1].problems)
              /\ prioritize_problems(report[e][1].problems)
                     = report[e][1].problems
    /\ (helper_arg.fn = "prioritize_problems" /\ helper_out # << >>) =>
          /\ InReportOrder(helper_out[1])
          /\ prioritize_problems(helper_out[1]) = helper_out[1]

\* a call returned a problem list that the sort had to reorder, holding two
\* problems of one severity from different categories
C7_Witness ==
    \E e \in Engines :
        /\ Returned(e)
        /\ locals[e][1].all_problems # report[e][1].problems
        /\ \E i, j \in 1..Len(report[e][1].problems) :
              /\ i < j
              /\ report[e][1].problems[i].severity
                     = report[e][1].problems[j].severity
              /\ report[e][1].problems[i].category
                     # report[e][1].problems[j].category
        /\ \E i, j \in 1..Len(report[e][1].problems) :
              report[e][1].problems[i].severity
                  # report[e][1].problems[j].severity

TextOf(rec) == rec.recommendation

\* the entries of a list whose text occurs at no earlier position, in order
RECURSIVE FirstSeen(_, _)
FirstSeen(recs, n) ==
    IF n = 0 THEN << >>
    ELSE IF \E j \in 1..(n - 1) : TextOf(recs[j]) = TextOf(recs[n])
         THEN FirstSeen(recs, n - 1)
         ELSE Append(FirstSeen(recs, n - 1), recs[n])

DistinctTexts(recs) ==
    \A i, j \in 1..Len(recs) : i # j => TextOf(recs[i]) # TextOf(recs[j])

\* C8: the recommendation list calculate_score returns holds no text twice
\* and is the merged list of the categories' recommendations with every
\* entry removed whose text occurred earlier.  The same holds of a list
\* _consolidate_recommendations returns when it is called directly.
C8_RecommendationsDeduplicated ==
    /\ \A e \in Engines :
          Returned(e) =>
              /\ DistinctTexts(report[e][1].recommendations)
              /\ report[e][1].recommendations
                     = FirstSeen(locals[e][1].all_recommendations,
                                 Len(locals[e][1].all_recommendations))
    /\ (helper_arg.fn = "consolidate_recommendations" /\ helper_out # << >>) =>
          /\ DistinctTexts(helper_out[1])
          /\ helper_out[1] = FirstSeen(helper_arg.arg, Len(helper_arg.arg))

\* a call returned recommendations from at least three categories
C8_Witness ==
    \E e \in Engines :
        /\ Returned(e)
        /\ Len(report[e][1].recommendations) >= 3
        /\ Len(report[e][1].recommendations)
               = Len(locals[e][1].all_recommendations)

(***************************************************************************)
(* The orchestrator: run_comprehensive_scan (app/scanners/tasks.py)        *)
(***************************************************************************)

\* scan_categories: the category names in the order of the list
scan_categories == CategoryOrder

total_categories == Len(scan_categories)

\* category.replace("_", " ").title()
TitleOf(category) ==
    CASE category = "internet_exposure"  -> "Internet Exposure"
      [] category = "tls_security"       -> "Tls Security"
      [] category = "web_security"       -> "Web Security"
      [] category = "email_security"     -> "Email Security"
      [] category = "vulnerabilities"    -> "Vulnerabilities"
      [] category = "iam_assessment"     -> "Iam Assessment"
      [] category = "backup_dr"          -> "Backup Dr"
      [] category = "logging_monitoring" -> "Logging Monitoring"

\* the meta with the number of the preceding category
ProgressMetaZeroBased(i) ==
    [ current |-> i - 1,
      total   |-> total_categories,
      status  |-> "Scanning " \o TitleOf(scan_categories[i]) \o "..." ]

\* the meta of task.update_state for the i-th category (i counted from 1,
\* enumerate's index is i - 1)
ProgressMeta(i) ==
    [ current |-> (i - 1) + 1,
      total   |-> total_categories,
      status  |-> "Scanning " \o TitleOf(scan_categories[i]) \o "..." ]

\* the entry the except clause stores for exception message e
FailedEntry(e) ==
    [ status |-> "failed",
      note   |-> "Scanning not possible: " \o e,
      data   |-> "None" ]

\* what one pass of the loop body can meet: an exception raised by
\* task.update_state, by the scanner's constructor or by scan(), or the
\* result scan() returns
UpdateRaises == [ step |-> "update_state", e |-> "backend unavailable" ]
InitRaises   == [ step |-> "init", e |-> "Invalid target: not a host" ]
ScanRaises   == [ step |-> "scan", e |-> "unexpected error" ]
ScanReturns(category_result) ==
    [ step |-> "none", category_result |-> category_result ]

Outcomes(task) ==
    (IF task THEN { UpdateRaises } ELSE { })
      \cup { InitRaises, ScanRaises,
             ScanReturns(Completed(EmptyDict)),
             ScanReturns(Failed(NoteTimeout)) }

\* the state on entry of run_comprehensive_scan, after results = {}
OrchEntry(task) ==
    [ pc          |-> "loop",
      i           |-> 1,
      task        |-> task,
      results     |-> EmptyDict,
      stored      |-> << >>,   \* categories assigned into results, in order
      progress    |-> << >>,   \* metas accepted by task.update_state
      emitted_at  |-> << >>,   \* per meta: the entries stored when it was sent
      constructed |-> << >>,   \* scanner_class(target, scan_type) calls
      scanned     |-> << >>,   \* scanner.scan() calls
      raised      |-> << >> ]  \* per handled category: the step that raised

InitOrch ==
    /\ engine = [ e \in Engines |-> ScoringEngine ]
    /\ scan_results = EmptyDict
    /\ report = [ e \in Engines |-> << >> ]
    /\ locals = [ e \in Engines |-> << >> ]
    /\ helper_arg = NoArg
    /\ helper_out = << >>
    /\ \E task \in BOOLEAN : orch = OrchEntry(task)
    /\ expo = ExpoIdle
    /\ probe = ProbeIdle
    /\ job = JobIdle
    /\ tls_scanner = TlsIdle
    /\ limiter = LimiterIdle
    /\ pool = PoolIdle

\* results[category] = value
Store(o, category, value) ==
    [ o EXCEPT !.results = (category :> value) @@ o.results,
               !.stored  = Append(o.stored, category) ]

\* the try block of the loop body up to the point the outcome allows
TryBlock(o, category, outcome) ==
    LET updated ==
            IF o.task /\ outcome.step # "update_state"
            THEN [ o EXCEPT
                     !.progress = Append(o.progress, ProgressMeta(o.i)),
                     !.emitted_at = Append(o.emitted_at, Len(o.stored)) ]
            ELSE o
        constructed ==
            IF outcome.step = "update_state" THEN updated
            ELSE [ updated EXCEPT
                     !.constructed = Append(updated.constructed, category) ]
        scanned ==
            IF outcome.step \in { "update_state", "init" } THEN constructed
            ELSE [ constructed EXCEPT
                     !.scanned = Append(constructed.scanned, category) ]
    IN  [ scanned EXCEPT !.raised = Append(scanned.raised, outcome.step) ]

\* the loop body with an except clause that only passes
LoopBodyDropping(o, category, outcome) ==
    LET tried == TryBlock(o, category, outcome)
    IN  IF outcome.step = "none"
        THEN [ Store(tried, category, outcome.category_result)
                 EXCEPT !.i = o.i + 1 ]
        ELSE [ tried EXCEPT !.i = o.i + 1 ]

\* the loop body with an except clause that stores the entry and leaves
\* the loop
LoopBodyAborting(o, category, outcome) ==
    LET tried == TryBlock(o, category, outcome)
    IN  IF outcome.step = "none"
        THEN [ Store(tried, category, outcome.category_result)
                 EXCEPT !.i = o.i + 1 ]
        ELSE [ Store(tried, category, FailedEntry(outcome.e))
                 EXCEPT !.i = total_categories + 1 ]

\* one pass of the loop body: try ... except Exception
LoopBody(o, category, outcome) ==
    LET tried == TryBlock(o, category, outcome)
    IN  IF outcome.step = "none"
        THEN [ Store(tried, category, outcome.category_result)
                 EXCEPT !.i = o.i + 1 ]
        ELSE [ Store(tried, category, FailedEntry(outcome.e))
                 EXCEPT !.i = o.i + 1 ]

\* for i, (category, scanner_class) in enumerate(scan_categories)
scan_category ==
    /\ orch.pc = "loop"
    /\ orch.i <= total_categories
    /\ \E outcome \in Outcomes(orch.task) :
         orch' = LoopBody(orch, scan_categories[orch.i], outcome)
    /\ UNCHANGED << engine, scan_results, report, locals, helper_arg,
                    helper_out, expo, probe, job, tls_scanner, limiter,
                    pool >>

\* return results
return_results ==
    /\ orch.pc = "loop"
    /\ orch.i > total_categories
    /\ orch' = [ orch EXCEPT !.pc = "returned" ]
    /\ UNCHANGED << engine, scan_results, report, locals, helper_arg,
                    helper_out, expo, probe, job, tls_scanner, limiter,
                    pool >>

NextOrch ==
    \/ scan_category
    \/ return_results

SpecOrch == InitOrch /\ [][NextOrch]_vars

(***************************************************************************)
(* Properties of the orchestrator                                          *)
(***************************************************************************)

Count(s, x) == Cardinality({ k \in 1..Len(s) : s[k] = x })

\* the categories of CategoryOrder kept by keep, in order
RECURSIVE Kept(_, _)
Kept(keep, n) ==
    IF n = 0 THEN << >>
    ELSE IF keep[n] THEN Append(Kept(keep, n - 1), CategoryOrder[n])
         ELSE Kept(keep, n - 1)

\* C3: after run_comprehensive_scan returns, the result map has an entry for
\* each of the eight categories and no other key, and each entry was stored
\* exactly once, whatever each category's constructor or scan() did.
C3_OneEntryPerCategory ==
    orch.pc = "returned" =>
        /\ DOMAIN orch.results = Categories
        /\ Len(orch.stored) = Len(CategoryOrder)
        /\ \A c \in Categories : Count(orch.stored, c) = 1

\* every category raised, half in the constructor and half in scan()
C3_Witness ==
    /\ orch.pc = "returned"
    /\ \A k \in 1..Len(CategoryOrder) :
         /\ orch.raised[k] = (IF k % 2 = 1 THEN "init" ELSE "scan")
         /\ orch.results[CategoryOrder[k]].status = "failed"

\* C4: the categories are handled one after the other in the fixed order,
\* each exactly once by the time the function returns; a category is
\* constructed once unless its progress update raised and scanned once unless
\* its progress update or constructor raised, never more; a category whose
\* handling raised has the failed entry built from the exception, and the
\* categories after it are still handled.
C4_SequentialIsolated ==
    LET n == Len(orch.raised)
        handled == SubSeq(CategoryOrder, 1, n)
    IN  /\ orch.pc # "idle" =>
            /\ n = orch.i - 1
            /\ orch.stored = handled
            /\ orch.constructed =
                 Kept([ k \in 1..n |-> orch.raised[k] # "update_state" ], n)
            /\ orch.scanned =
                 Kept([ k \in 1..n |->
                          orch.raised[k] \in { "none", "scan" } ], n)
            /\ \A k \in 1..n :
                 orch.raised[k] # "none" =>
                   /\ orch.results[CategoryOrder[k]].status = "failed"
                   /\ orch.results[CategoryOrder[k]].note \in
                        { "Scanning not possible: " \o o.e :
                            o \in { UpdateRaises, InitRaises, ScanRaises } }
                   /\ orch.results[CategoryOrder[k]].data = "None"
        /\ orch.pc = "returned" => n = Len(CategoryOrder)

\* the first three categories raised in each of the three places and the
\* last category was still constructed, scanned and completed
C4_Witness ==
    /\ orch.pc = "returned"
    /\ orch.raised[1] = "update_state"
    /\ orch.raised[2] = "init"
    /\ orch.raised[3] = "scan"
    /\ Count(orch.scanned, "logging_monitoring") = 1
    /\ orch.results["logging_monitoring"].status = "completed"

(***************************************************************************)
(* The internet exposure scanner (app/scanners/internet_exposure.py)       *)
(***************************************************************************)

\* settings.COMMON_PORTS
COMMON_PORTS ==
    << 21, 22, 23, 25, 53, 80, 110, 143, 443, 993, 995, 3389, 8080, 8443 >>

\* settings.SCAN_TIMEOUT, which BaseScanner.__init__ copies to self.timeout
SCAN_TIMEOUT == 30

\* _get_scan_ports with the common ports added to the full range
get_scan_ports_with_common(scan_type) ==
    IF scan_type = "quick" THEN COMMON_PORTS
    ELSE IF scan_type = "full" THEN [ k \in 1..1000 |-> k ] \o COMMON_PORTS
    ELSE COMMON_PORTS

\* _get_scan_ports: list(range(1, 1001)) for a full scan
get_scan_ports(scan_type) ==
    IF scan_type = "quick" THEN COMMON_PORTS
    ELSE IF scan_type = "full" THEN [ k \in 1..1000 |-> k ]
    ELSE COMMON_PORTS

\* should_scan_quickly
should_scan_quickly(scan_type) == scan_type = "quick"

\* _guess_service_name: common_services.get(port, "unknown")
guess_service_name(port) ==
    CASE port = 21    -> "ftp"
      [] port = 22    -> "ssh"
      [] port = 23    -> "telnet"
      [] port = 25    -> "smtp"
      [] port = 53    -> "dns"
      [] port = 80    -> "http"
      [] port = 110   -> "pop3"
      [] port = 143   -> "imap"
      [] port = 443   -> "https"
      [] port = 993   -> "imaps"
      [] port = 995   -> "pop3s"
      [] port = 465   -> "smtps"
      [] port = 587   -> "submission"
      [] port = 8080  -> "http-proxy"
      [] port = 8443  -> "https-alt"
      [] port = 3389  -> "rdp"
      [] port = 1433  -> "mssql"
      [] port = 3306  -> "mysql"
      [] port = 5432  -> "postgresql"
      [] port = 6379  -> "redis"
      [] port = 27017 -> "mongodb"
      [] OTHER        -> "unknown"

\* The target as the network shows it during one invocation.  A port
\* answers a connection attempt in one of four ways; the ports of
\* TrackedPorts answer independently, every other port answers as env.other.
TrackedPorts == { 22, 443, 8443 }

Answers == { "accept", "refused", "timeout", "raises" }

Answer(env, port) ==
    IF port \in TrackedPorts THEN env.answer[port] ELSE env.other

\* sock.connect_ex((self.target, port)): 0, ECONNREFUSED or EAGAIN
connect_ex(env, port) ==
    CASE Answer(env, port) = "accept"  -> 0
      [] Answer(env, port) = "refused" -> 111
      [] OTHER                         -> 11

\* scan_port recording whatever connect_ex returned
scan_port_any_result(env, port) ==
    IF Answer(env, port) = "raises" THEN << >>
    ELSE << [ port |-> port, protocol |-> "tcp",
              service |-> guess_service_name(port), state |-> "open",
              method |-> "socket_connect" ] >>

\* scan_port of _perform_socket_scan: << record >>, or << >> for None
scan_port(env, port) ==
    IF Answer(env, port) = "raises" THEN << >>
    ELSE LET result == connect_ex(env, port)
         IN  IF result = 0
             THEN << [ port |-> port, protocol |-> "tcp",
                       service |-> guess_service_name(port),
                       state |-> "open", method |-> "socket_connect" ] >>
             ELSE << >>

\* _perform_socket_scan: the records of executor.map(scan_port, ports) that
\* are not None, in the order of ports
perform_socket_scan(env, ports) ==
    LET hits == SelectSeq(ports, LAMBDA p : scan_port(env, p) # << >>)
    IN  [ k \in 1..Len(hits) |-> scan_port(env, hits[k])[1] ]

\* the state nmap's SYN scan reports for a port
NmapState(env, port) ==
    CASE Answer(env, port) = "accept"  -> "open"
      [] Answer(env, port) = "refused" -> "closed"
      [] OTHER                         -> "filtered"

\* host_info[protocol][port] of python-nmap; product and version are filled
\* by version detection only
NmapPortInfo(env, port, quick) ==
    [ state     |-> NmapState(env, port),
      name      |-> guess_service_name(port),
      product   |-> IF quick \/ NmapState(env, port) # "open"
                    THEN "" ELSE "httpd",
      version   |-> IF quick \/ NmapState(env, port) # "open"
                    THEN "" ELSE "2.4",
      extrainfo |-> "" ]

\* the records _extract_nmap_port_info appends for one host
ExtractHost(env, host, ports, quick) ==
    IF ~ host.matches THEN << >>
    ELSE IF host.state # "up" THEN << >>
    ELSE LET open == SelectSeq(ports,
                       LAMBDA p : NmapPortInfo(env, p, quick).state = "open")
         IN  [ k \in 1..Len(open) |->
                 LET port_info == NmapPortInfo(env, open[k], quick)
                 IN  [ port       |-> open[k],
                       protocol   |-> "tcp",
                       service    |-> port_info.name,
                       state      |-> port_info.state,
                       method     |-> "nmap",
                       version    |-> port_info.version,
                       product    |-> port_info.product,
                       extra_info |-> port_info.extrainfo ] ]

\* _extract_nmap_port_info: for host in hosts
extract_nmap_port_info(env, hosts, ports, quick) ==
    ConcatSeq([ h \in 1..Len(hosts) |->
                  ExtractHost(env, hosts[h], ports, quick) ])

\* _perform_os_detection: the name of the best match, None without a match
perform_os_detection(env) ==
    IF env.os_match THEN "Linux 5.X" ELSE "None"

\* _grab_banner: the banner read after a completed connect, or None
grab_banner(env, port) ==
    IF Answer(env, port) = "raises" THEN "None"
    ELSE IF connect_ex(env, port) = 0 /\ env.banner
         THEN "SSH-2.0-OpenSSH_8.9" ELSE "None"

\* _perform_banner_grabbing
perform_banner_grabbing(env, open_ports, quick) ==
    IF quick THEN open_ports
    ELSE [ k \in 1..Len(open_ports) |->
             LET port_info == open_ports[k]
                 banner == grab_banner(env, port_info.port)
             IN  IF port_info.protocol # "tcp" THEN port_info
                 ELSE IF banner # "None"
                      THEN [ banner |-> banner ] @@ port_info
                      ELSE port_info ]

\* handle_timeout(operation)
handle_timeout(operation) ==
    Failed("Data not obtained; " \o operation \o " timed out after "
             \o ToString(SCAN_TIMEOUT) \o " seconds")

\* handle_network_error(operation, error)
handle_network_error(operation, error) ==
    Failed("Data not obtained; " \o operation \o " failed"
             \o (IF error # "" THEN ": " \o error ELSE ""))

\* handle_service_not_found(service)
handle_service_not_found(service) ==
    Failed("Scanning not possible; " \o service
             \o " not detected or available")

\* what self.nm.scan can raise: the message and whether it holds "timed out"
NmapTimedOut == [ outcome |-> "raises", e |-> "Host timed out",
                  timed_out |-> TRUE ]
NmapFailed   == [ outcome |-> "raises",
                  e |-> "nmap program was not found in path",
                  timed_out |-> FALSE ]
NmapRan      == [ outcome |-> "ok" ]

\* self.nm.all_hosts() after the scan: no host, the target up or down, or a
\* host whose name neither holds nor is held by the target
HostLists ==
    { << >>,
      << [ matches |-> TRUE,  state |-> "up" ] >>,
      << [ matches |-> TRUE,  state |-> "down" ] >>,
      << [ matches |-> FALSE, state |-> "up" ] >> }

PortAnswers ==
    { [ answer |-> a, other |-> o, banner |-> b ] :
        a \in [ TrackedPorts -> Answers ],
        o \in { "refused", "timeout" },
        b \in BOOLEAN }

WithoutNmap ==
    { [ nmap_available |-> n, nmap |-> NmapRan, hosts |-> << >>,
        os_match |-> FALSE ] : n \in { "missing", "init fails" } }

WithNmap ==
    { [ nmap_available |-> "available", nmap |-> r, hosts |-> << >>,
        os_match |-> FALSE ] : r \in { NmapTimedOut, NmapFailed } }
      \cup { [ nmap_available |-> "available", nmap |-> NmapRan,
               hosts |-> h, os_match |-> m ] :
               h \in HostLists, m \in BOOLEAN }

Environments ==
    { a @@ n : a \in PortAnswers, n \in WithoutNmap \cup WithNmap }

ScanTypes == { "quick", "full", "custom" }

\* a scanner about to be constructed for one scan type in one environment
NewScanner(scan_type, env) ==
    [ pc             |-> "new",
      scan_type      |-> scan_type,
      env            |-> env,
      use_nmap       |-> FALSE,
      open_ports     |-> << >>,
      os_fingerprint |-> "None",
      ports_to_scan  |-> << >>,  \* the list _get_scan_ports returned
      probed         |-> << >>,  \* ports handed to the discovery step
      connected      |-> { },    \* ports a TCP connect completed to
      banner_grabs   |-> << >>,  \* ports _grab_banner was called for
      os_scans       |-> 0,      \* calls of _perform_os_detection
      result         |-> << >> ]

InitExpo ==
    /\ engine = [ e \in Engines |-> ScoringEngine ]
    /\ scan_results = EmptyDict
    /\ report = [ e \in Engines |-> << >> ]
    /\ locals = [ e \in Engines |-> << >> ]
    /\ helper_arg = NoArg
    /\ helper_out = << >>
    /\ orch = OrchIdle
    /\ probe = ProbeIdle
    /\ job = JobIdle
    /\ tls_scanner = TlsIdle
    /\ limiter = LimiterIdle
    /\ pool = PoolIdle
    /\ \E scan_type \in ScanTypes, env \in Environments :
         expo = NewScanner(scan_type, env)

\* InternetExposureScanner.__init__: nmap is used when the module imported
\* and nmap.PortScanner() did not raise
init_scanner ==
    /\ expo.pc = "new"
    /\ expo' = [ expo EXCEPT
                   !.pc = "ready",
                   !.use_nmap = (expo.env.nmap_available = "available"),
                   !.open_ports = << >>,
                   !.os_fingerprint = "None" ]
    /\ UNCHANGED << engine, scan_results, report, locals, helper_arg,
                    helper_out, orch, probe, job, tls_scanner, limiter,
                    pool >>

PortsOf(open_ports) == { open_ports[k].port : k \in 1..Len(open_ports) }

\* InternetExposureScanner.scan() from start_scan to the return
ScanInvocation(x) ==
    LET env == x.env
        ports_to_scan == get_scan_ports(x.scan_type)
        quick == should_scan_quickly(x.scan_type)
        nmap_raised == x.use_nmap /\ env.nmap.outcome = "raises"
        scan_hosts == env.hosts
        discovered ==
            IF x.use_nmap
            THEN IF nmap_raised THEN x.open_ports
                 ELSE IF scan_hosts # << >>
                      THEN extract_nmap_port_info(env, scan_hosts,
                                                  ports_to_scan, quick)
                      ELSE x.open_ports
            ELSE perform_socket_scan(env, ports_to_scan)
        detect_os == ~ nmap_raised /\ discovered # << >> /\ ~ quick
                       /\ x.use_nmap
        grab == ~ nmap_raised /\ discovered # << >>
        open_ports ==
            IF grab THEN perform_banner_grabbing(env, discovered, quick)
            ELSE discovered
        os_fingerprint ==
            IF detect_os THEN perform_os_detection(env)
            ELSE x.os_fingerprint
        \* connects completed by the discovery step: every accepted
        \* connect_ex of the socket scan; none by nmap's SYN scan, whose
        \* version detection (-sV, not in quick mode) connects to the open
        \* ports of a host that is up
        discovery_connects ==
            IF x.use_nmap
            THEN IF nmap_raised \/ quick \/ scan_hosts = << >>
                      \/ scan_hosts[1].state # "up"
                 THEN { }
                 ELSE { ports_to_scan[k] : k \in
                          { j \in 1..Len(ports_to_scan) :
                              Answer(env, ports_to_scan[j]) = "accept" } }
            ELSE { ports_to_scan[k] : k \in
                     { j \in 1..Len(ports_to_scan) :
                         Answer(env, ports_to_scan[j]) = "accept" } }
        banner_grabs ==
            IF grab /\ ~ quick
            THEN [ k \in 1..Len(discovered) |-> discovered[k].port ]
            ELSE << >>
        banner_connects ==
            { banner_grabs[k] : k \in
                { j \in 1..Len(banner_grabs) :
                    Answer(env, banner_grabs[j]) = "accept" } }
        result ==
            IF nmap_raised
            THEN IF env.nmap.timed_out
                 THEN handle_timeout("port scanning")
                 ELSE handle_network_error("port scanning",
                        "Nmap scan failed: " \o env.nmap.e)
            ELSE Completed(
                   [ open_ports          |-> open_ports,
                     os_fingerprint      |-> os_fingerprint,
                     total_ports_scanned |-> Len(ports_to_scan),
                     scan_method         |->
                         IF x.use_nmap THEN "nmap" ELSE "socket" ])
    IN  [ x EXCEPT
            !.pc = "returned",
            !.ports_to_scan = ports_to_scan,
            !.probed = ports_to_scan,
            !.open_ports = open_ports,
            !.os_fingerprint = os_fingerprint,
            !.connected = discovery_connects \cup banner_connects,
            !.banner_grabs = banner_grabs,
            !.os_scans = IF detect_os THEN 1 ELSE 0,
            !.result = result ]

\* scanner.scan()
scan ==
    /\ expo.pc = "ready"
    /\ expo' = ScanInvocation(expo)
    /\ UNCHANGED << engine, scan_results, report, locals, helper_arg,
                    helper_out, orch, probe, job, tls_scanner, limiter,
                    pool >>

NextExpo ==
    \/ init_scanner
    \/ scan

SpecExpo == InitExpo /\ [][NextExpo]_vars

(***************************************************************************)
(* Properties of the internet exposure scanner                             *)
(***************************************************************************)

SeqSet(s) == { s[k] : k \in 1..Len(s) }

NoDuplicates(s) == Cardinality(SeqSet(s)) = Len(s)

\* C9 as stated: on both paths every record of open_ports is for a port a
\* TCP connect to the target completed to during the invocation, and a port
\* whose connection attempt timed out, was refused or raised has no record.
C9_RecordsHaveCompletedConnect ==
    expo.pc = "returned" =>
        \A k \in 1..Len(expo.open_ports) :
            /\ expo.open_ports[k].port \in expo.connected
            /\ Answer(expo.env, expo.open_ports[k].port) = "accept"

\* C9 as the code has it: every record of open_ports is for a candidate port
\* that answered the discovery probe of this invocation as open; on the
\* socket path that is a completed TCP connect, on the nmap path it is the
\* state "open" reported by the SYN scan for the matching host that is up,
\* with a completed connect only outside quick mode; a port whose probe
\* timed out, was refused or raised has no record on either path.
C9_RecordsAnsweredOpen ==
    expo.pc = "returned" =>
        \A k \in 1..Len(expo.open_ports) :
            LET record == expo.open_ports[k]
            IN  /\ Answer(expo.env, record.port) = "accept"
                /\ record.port \in SeqSet(expo.probed)
                /\ record.state = "open"
                /\ record.method =
                     (IF expo.use_nmap THEN "nmap" ELSE "socket_connect")
                /\ ~ expo.use_nmap => record.port \in expo.connected
                /\ expo.use_nmap =>
                     /\ expo.env.nmap.outcome = "ok"
                     /\ \E h \in 1..Len(expo.env.hosts) :
                          /\ expo.env.hosts[h].matches
                          /\ expo.env.hosts[h].state = "up"
                     /\ expo.scan_type # "quick" =>
                          record.port \in expo.connected

\* a quick nmap scan that recorded an open port without any completed
\* connect, while ports that timed out, refused and raised got no record
C9_Witness ==
    /\ expo.pc = "returned"
    /\ expo.use_nmap
    /\ expo.scan_type = "quick"
    /\ PortsOf(expo.open_ports) = { 443 }
    /\ expo.connected = { }
    /\ expo.env.answer[22] = "timeout"
    /\ expo.env.answer[8443] = "raises"
    /\ expo.env.other = "refused"

Digits == { "0", "1", "2", "3", "4", "5", "6", "7", "8", "9" }

DigitValue ==
    "0" :> 0 @@ "1" :> 1 @@ "2" :> 2 @@ "3" :> 3 @@ "4" :> 4 @@
    "5" :> 5 @@ "6" :> 6 @@ "7" :> 7 @@ "8" :> 8 @@ "9" :> 9

LowerLetters ==
    { "a", "b", "c", "d", "e", "f", "g", "h", "i", "j", "k", "l", "m",
      "n", "o", "p", "q", "r", "s", "t", "u", "v", "w", "x", "y", "z" }

\* str.lower() on the upper-case letters
LowerOf ==
    "A" :> "a" @@ "B" :> "b" @@ "C" :> "c" @@ "D" :> "d" @@ "E" :> "e" @@
    "F" :> "f" @@ "G" :> "g" @@ "H" :> "h" @@ "I" :> "i" @@ "J" :> "j" @@
    "K" :> "k" @@ "L" :> "l" @@ "M" :> "m" @@ "N" :> "n" @@ "O" :> "o" @@
    "P" :> "p" @@ "Q" :> "q" @@ "R" :> "r" @@ "S" :> "s" @@ "T" :> "t" @@
    "U" :> "u" @@ "V" :> "v" @@ "W" :> "w" @@ "X" :> "x" @@ "Y" :> "y" @@
    "Z" :> "z"

HexDigits == Digits \cup { "a", "b", "c", "d", "e", "f" }
                    \cup { "A", "B", "C", "D", "E", "F" }

Whitespace == { " ", "\t", "\n" }

\* str.lower()
Lower(s) ==
    [ i \in 1..Len(s) |->
        IF s[i] \in DOMAIN LowerOf THEN LowerOf[s[i]] ELSE s[i] ]

\* str.strip()
Strip(s) ==
    LET inside == { i \in 1..Len(s) : s[i] \notin Whitespace }
    IN  IF inside = { } THEN << >>
        ELSE SubSeq(s, CHOOSE i \in inside : \A j \in inside : i <= j,
                       CHOOSE i \in inside : \A j \in inside : j <= i)

\* str.startswith(prefix)
StartsWith(s, prefix) ==
    /\ Len(s) >= Len(prefix)
    /\ SubSeq(s, 1, Len(prefix)) = prefix

\* index of the first character of s that is in chars, 0 when there is none
FirstIndex(s, chars) ==
    LET hits == { i \in 1..Len(s) : s[i] \in chars }
    IN  IF hits = { } THEN 0
        ELSE CHOOSE i \in hits : \A j \in hits : i <= j

\* index of the last character of s that is in chars, 0 when there is none
LastIndex(s, chars) ==
    LET hits == { i \in 1..Len(s) : s[i] \in chars }
    IN  IF hits = { } THEN 0
        ELSE CHOOSE i \in hits : \A j \in hits : j <= i

\* str.partition(sep)[0] and [2] for a one-character separator
Before(s, sep) ==
    IF FirstIndex(s, { sep }) = 0 THEN s
    ELSE SubSeq(s, 1, FirstIndex(s, { sep }) - 1)

After(s, sep) ==
    IF FirstIndex(s, { sep }) = 0 THEN << >>
    ELSE SubSeq(s, FirstIndex(s, { sep }) + 1, Len(s))

\* str.rpartition(sep)[2]
AfterLast(s, sep) == SubSeq(s, LastIndex(s, { sep }) + 1, Len(s))

\* str.split(sep) for a one-character separator
RECURSIVE Split(_, _)
Split(s, sep) ==
    IF FirstIndex(s, { sep }) = 0 THEN << s >>
    ELSE << Before(s, sep) >> \o Split(After(s, sep), sep)

\* int(digits) for a non-empty run of decimal digits
RECURSIVE DecimalValue(_)
DecimalValue(s) ==
    IF s = << >> THEN 0
    ELSE 10 * DecimalValue(SubSeq(s, 1, Len(s) - 1)) + DigitValue[s[Len(s)]]

\* ipaddress.IPv4Address(s): four decimal octets 0..255 without leading zero
IsIPv4(s) ==
    LET octets == Split(s, ".")
    IN  /\ Len(octets) = 4
        /\ \A k \in 1..4 :
             /\ Len(octets[k]) \in 1..3
             /\ \A i \in 1..Len(octets[k]) : octets[k][i] \in Digits
             /\ Len(octets[k]) > 1 => octets[k][1] # "0"
             /\ DecimalValue(octets[k]) <= 255

\* the groups of one side of an IPv6 address: hexadecimal, 1..4 digits each
HexGroups(side) ==
    IF side = << >> THEN << >> ELSE Split(side, ":")

AreHexGroups(groups) ==
    \A k \in 1..Len(groups) :
        /\ Len(groups[k]) \in 1..4
        /\ \A i \in 1..Len(groups[k]) : groups[k][i] \in HexDigits

\* ipaddress.IPv6Address(s) for the forms without an embedded IPv4 tail and
\* without a scope id: eight groups, or fewer around one "::"
IsIPv6(s) ==
    LET pairs == { i \in 1..(Len(s) - 1) : s[i] = ":" /\ s[i + 1] = ":" }
    IN  IF pairs = { }
        THEN /\ Len(HexGroups(s)) = 8
             /\ AreHexGroups(HexGroups(s))
        ELSE LET at == CHOOSE i \in pairs : TRUE
                 left == HexGroups(SubSeq(s, 1, at - 1))
                 right == HexGroups(SubSeq(s, at + 2, Len(s)))
             IN  /\ Cardinality(pairs) = 1
                 /\ AreHexGroups(left)
                 /\ AreHexGroups(right)
                 /\ Len(left) + Len(right) <= 7

\* is_valid_ip(ip_str): ipaddress.ip_address accepts it
is_valid_ip(ip_str) == IsIPv4(ip_str) \/ IsIPv6(ip_str)

\* is_valid_domain(domain): validators.domain accepts it: at least two
\* labels of letters, digits and inner hyphens, the last one alphabetic
is_valid_domain(domain) ==
    LET labels == Split(domain, ".")
        tld == labels[Len(labels)]
        LabelChars == LowerLetters \cup DOMAIN LowerOf \cup Digits \cup { "-" }
    IN  /\ Len(domain) <= 253
        /\ Len(labels) >= 2
        /\ \A k \in 1..Len(labels) :
             /\ Len(labels[k]) \in 1..63
             /\ \A i \in 1..Len(labels[k]) : labels[k][i] \in LabelChars
             /\ labels[k][1] # "-"
             /\ labels[k][Len(labels[k])] # "-"
        /\ Len(tld) >= 2
        /\ \A i \in 1..Len(tld) : tld[i] \in LowerLetters \cup DOMAIN LowerOf

\* urlparse(url).netloc for a URL that starts with "<scheme>://"
Netloc(url) ==
    LET rest == SubSeq(url, FirstIndex(url, { ":" }) + 3, Len(url))
        stop == FirstIndex(rest, { "/", "?", "#" })
    IN  IF stop = 0 THEN rest ELSE SubSeq(rest, 1, stop - 1)

\* urlparse raises ValueError("Invalid IPv6 URL") on unbalanced brackets and
\* ValueError on a bracketed host that is not an IPv6 address
UrlparseRaises(url) ==
    LET netloc == Netloc(url)
        open == FirstIndex(netloc, { "[" }) # 0
        close == FirstIndex(netloc, { "]" }) # 0
    IN  \/ open /\ ~ close
        \/ close /\ ~ open
        \/ /\ open
           /\ close
           /\ ~ IsIPv6(Before(After(netloc, "["), "]"))

\* urlparse(url).hostname: the host without user info, brackets and port,
\* lower-cased; the empty sequence stands for None
Hostname(url) ==
    LET hostinfo == AfterLast(Netloc(url), "@")
    IN  Lower(IF FirstIndex(hostinfo, { "[" }) # 0
              THEN Before(After(hostinfo, "["), "]")
              ELSE Before(hostinfo, ":"))

Http == << "h", "t", "t", "p", ":", "/", "/" >>
Https == << "h", "t", "t", "p", "s", ":", "/", "/" >>

\* the outcomes of validate_target(target): "True", "False", or the
\* ValueError that urlparse raises through it
validate_target(target) ==
    IF target = << >> THEN "False"
    ELSE LET lowered == Lower(Strip(target))
             prefixed == StartsWith(lowered, Http)
                           \/ StartsWith(lowered, Https)
             host == IF ~ prefixed THEN lowered
                     ELSE IF Hostname(lowered) # << >>
                          THEN Hostname(lowered)
                          ELSE Netloc(lowered)
         IN  IF prefixed /\ UrlparseRaises(lowered) THEN "ValueError"
             ELSE IF is_valid_ip(host) THEN "True"
             ELSE IF is_valid_domain(host) THEN "True"
             ELSE "False"

(***************************************************************************)
(* Scanner construction: BaseScanner.__init__ (app/scanners/base.py),      *)
(* reached through super().__init__ by each of the eight scanner classes   *)
(***************************************************************************)

\* the target strings handed to the constructors
Targets ==
    LET ip == << "1", ".", "2", ".", "3", ".", "4" >>
        ip6 == << ":", ":", "1" >>
        domain == << "e", "x", "a", "m", "p", "l", "e", ".", "c", "o", "m" >>
    IN  { ip,                                        \* 1.2.3.4
          ip6,                                       \* ::1
          domain,                                    \* example.com
          << " " >> \o domain \o << " " >>,          \* " example.com "
          Https \o domain,                           \* https://example.com
          Http \o ip \o << ":", "8", "0", "/", "x" >>, \* http://1.2.3.4:80/x
          << "H", "T", "T", "P", ":", "/", "/", "E", "x", "a", "m", "p", "l",
             "e", ".", "c", "o", "m" >>,             \* HTTP://Example.com
          Http \o << "[" >> \o ip6 \o << "]" >>,     \* http://[::1]
          Http \o << "[" >>,                         \* http://[
          Https \o << "[" >> \o ip6,                 \* https://[::1
          Http \o << "[", "a", "b", "c", "]" >>,     \* http://[abc]
          Http,                                      \* http://
          << "n", "o", "t", " ", "a", " ", "h", "o", "s", "t" >>,
          << "e", "x", "a", "_", "m", "p", "l", "e" >>,
          << "1", ".", "2", ".", "3", ".", "2", "5", "6" >>,
          << " " >>,
          << >> }

\* what the steps inside scan() can meet, by scanner class: they return,
\* or one of them raises an exception that reaches scan()'s except clauses
Returns(findings) == [ kind |-> "returns", findings |-> findings ]
Raises(exc, e) == [ kind |-> "raises", exc |-> exc, e |-> e ]
NoTlsService == [ kind |-> "no_service" ]

UnexpectedErrors ==
    { Raises("Exception", "'NoneType' object is not subscriptable"),
      Raises("Exception", "") }

ScanEvents(cls) ==
    { Returns(f) : f \in BOOLEAN } \cup UnexpectedErrors \cup
    CASE cls = "internet_exposure" ->
           { Raises("NetworkTimeoutError",
                    "Nmap scan timed out: Host timed out"),
             Raises("ScanningNotPossibleError",
                    "Nmap scan failed: nmap program was not found in path") }
      [] cls = "tls_security" -> { NoTlsService }
      [] cls = "web_security" ->
           { Raises("ScanningNotPossibleError",
                    "SSL connection failed: certificate verify failed") }
      [] cls = "email_security" ->
           { Raises("Timeout", "The DNS operation timed out."),
             Raises("ScanningNotPossibleError", "Domain does not exist") }
      [] OTHER -> { }

\* a scanner class about to be instantiated with (target, scan_type)
NewProbe(cls, target, scan_type, event) ==
    [ pc        |-> "new",
      cls       |-> cls,
      raw       |-> target,
      scan_type |-> scan_type,
      event     |-> event ]

\* BaseScanner.__init__(target, scan_type): the fields it sets and the
\* exception it leaves with; it opens no connection and sends no query
BaseScanner_init(p) ==
    LET target == Strip(p.raw)
        is_ip == is_valid_ip(target)
        verdict == validate_target(target)
    IN  [ pc          |-> IF verdict = "True" THEN "constructed" ELSE "raised",
          cls         |-> p.cls,
          raw         |-> p.raw,
          scan_type   |-> p.scan_type,
          event       |-> p.event,
          target      |-> target,
          timeout     |-> SCAN_TIMEOUT,
          is_ip       |-> is_ip,
          exception   |-> CASE verdict = "True"  -> "none"
                            [] verdict = "False" -> "InvalidTargetError"
                            [] OTHER             -> verdict,
          network_ops |-> 0 ]

InitProbe ==
    /\ engine = [ e \in Engines |-> ScoringEngine ]
    /\ scan_results = EmptyDict
    /\ report = [ e \in Engines |-> << >> ]
    /\ locals = [ e \in Engines |-> << >> ]
    /\ helper_arg = NoArg
    /\ helper_out = << >>
    /\ orch = OrchIdle
    /\ expo = ExpoIdle
    /\ job = JobIdle
    /\ tls_scanner = TlsIdle
    /\ limiter = LimiterIdle
    /\ pool = PoolIdle
    /\ \E cls \in Categories, target \in Targets, scan_type \in ScanTypes :
         \E event \in ScanEvents(cls) :
            probe = NewProbe(cls, target, scan_type, event)

\* scanner_class(target, scan_type)
construct ==
    /\ probe.pc = "new"
    /\ probe' = BaseScanner_init(probe)
    /\ UNCHANGED << engine, scan_results, report, locals, helper_arg,
                    helper_out, orch, expo, job, tls_scanner, limiter, pool >>

(***************************************************************************)
(* The scan() contract: the try/except frame every scanner class puts      *)
(* around its steps, and the result it returns                             *)
(***************************************************************************)

\* the operation named in handle_network_error, by scanner class
OperationOf(cls) ==
    CASE cls = "internet_exposure"  -> "port scanning"
      [] cls = "tls_security"       -> "TLS/SSL analysis"
      [] cls = "web_security"       -> "web security analysis"
      [] cls = "email_security"     -> "email authentication analysis"
      [] cls = "vulnerabilities"    -> "CVE vulnerability analysis"
      [] cls = "iam_assessment"     -> "IAM assessment"
      [] cls = "backup_dr"          -> "backup and DR assessment"
      [] cls = "logging_monitoring" -> "security monitoring detection"

\* the operation named in handle_timeout
TimeoutOperationOf(cls) ==
    IF cls = "email_security" THEN "DNS queries for email authentication"
    ELSE OperationOf(cls)

\* the exception class of the first except clause
TimeoutClassOf(cls) ==
    IF cls = "email_security" THEN "Timeout" ELSE "NetworkTimeoutError"

\* the payload handed to create_result("completed", ...)
PayloadOf(cls, findings) ==
    CASE cls = "internet_exposure" ->
           (IF findings THEN ExposureWorst ELSE ExposureClean)
             @@ [ os_fingerprint |-> "None", scan_method |-> "socket" ]
      [] cls = "tls_security" -> IF findings THEN TlsWorst ELSE TlsClean
      [] cls = "web_security" -> IF findings THEN WebWorst ELSE WebClean
      [] cls = "email_security" -> IF findings THEN EmailWorst ELSE EmailClean
      [] cls = "vulnerabilities" -> IF findings THEN CveWorst ELSE CveClean
      [] cls = "iam_assessment" -> IF findings THEN IamWorst ELSE IamClean
      [] cls = "backup_dr" -> IF findings THEN BackupWorst ELSE BackupClean
      [] cls = "logging_monitoring" ->
           IF findings THEN MonitoringWorst ELSE MonitoringClean

\* a service list that came back empty
no_detected_services == << >>

\* CVEVulnerabilityScanner._get_detected_services: the three simulated
\* services it always assigns
get_detected_services ==
    << [ port |-> 80, service |-> "http", product |-> "Apache" ],
       [ port |-> 22, service |-> "ssh", product |-> "OpenSSH" ],
       [ port |-> 443, service |-> "https", product |-> "nginx" ] >>

\* the return statements of the try block when no step raises
TryReturns(cls, findings) ==
    IF cls = "vulnerabilities" /\ get_detected_services = << >>
    THEN Completed(
           [ note |-> "No services detected for vulnerability assessment" ]
             @@ PayloadOf(cls, findings))
    ELSE Completed(PayloadOf(cls, findings))

Caught(result) == [ caught |-> TRUE, result |-> result ]
Escapes(exc) == [ caught |-> FALSE, exc |-> exc ]

\* the except clauses without the closing "except Exception"
ExceptClausesNoCatchAll(cls, exc, e) ==
    IF exc = TimeoutClassOf(cls)
    THEN Caught(handle_timeout(TimeoutOperationOf(cls)))
    ELSE IF exc = "ScanningNotPossibleError"
         THEN Caught(handle_network_error(OperationOf(cls), e))
         ELSE Escapes(exc)

\* the except clauses of scan(), in order: the timeout class,
\* ScanningNotPossibleError, Exception
ExceptClauses(cls, exc, e) ==
    IF exc = TimeoutClassOf(cls)
    THEN Caught(handle_timeout(TimeoutOperationOf(cls)))
    ELSE IF exc = "ScanningNotPossibleError"
         THEN Caught(handle_network_error(OperationOf(cls), e))
         ELSE Caught(handle_network_error(OperationOf(cls), e))

\* scan() of a constructed scanner
ScanContract(p) ==
    LET before_steps == p.cls = "email_security" /\ p.is_ip
        outcome ==
            IF before_steps
            THEN Caught(handle_service_not_found(
                   "email authentication (IP addresses not supported)"))
            ELSE IF p.event.kind = "no_service"
            THEN Caught(handle_service_not_found("TLS/SSL services"))
            ELSE IF p.event.kind = "raises"
            THEN ExceptClauses(p.cls, p.event.exc, p.event.e)
            ELSE Caught(TryReturns(p.cls, p.event.findings))
    IN  [ pc          |-> IF outcome.caught THEN "returned" ELSE "escaped",
          cls         |-> p.cls,
          raw         |-> p.raw,
          scan_type   |-> p.scan_type,
          event       |-> p.event,
          target      |-> p.target,
          timeout     |-> p.timeout,
          is_ip       |-> p.is_ip,
          exception   |-> IF outcome.caught THEN "none" ELSE outcome.exc,
          network_ops |-> IF before_steps THEN 0 ELSE 1,
          result      |-> IF outcome.caught THEN outcome.result ELSE << >> ]

\* scanner.scan()
scan_contract ==
    /\ probe.pc = "constructed"
    /\ probe' = ScanContract(probe)
    /\ UNCHANGED << engine, scan_results, report, locals, helper_arg,
                    helper_out, orch, expo, job, tls_scanner, limiter, pool >>

\* "".join(chars): the target as one string
RECURSIVE Join(_)
Join(chars) ==
    IF chars = << >> THEN "" ELSE chars[1] \o Join(Tail(chars))

\* str(e) of the exception that left the constructor or scan()
MessageOf(p) ==
    CASE p.exception = "InvalidTargetError" ->
           "Invalid target: " \o Join(p.target)
      [] p.exception = "ValueError" -> "Invalid IPv6 URL"
      [] OTHER -> p.event.e

\* run_comprehensive_scan's handling of this scanner class: results[category]
\* is what scan() returned, or the except clause's entry for the exception
\* that left the constructor or scan()
store_result ==
    /\ probe.pc \in { "raised", "returned", "escaped" }
    /\ probe' =
         [ pc    |-> "stored",
           cls   |-> probe.cls,
           raw   |-> probe.raw,
           event |-> probe.event,
           from  |-> probe.pc,
           entry |-> IF probe.pc = "returned" THEN probe.result
                     ELSE FailedEntry(MessageOf(probe)) ]
    /\ UNCHANGED << engine, scan_results, report, locals, helper_arg,
                    helper_out, orch, expo, job, tls_scanner, limiter, pool >>

NextProbe == construct \/ scan_contract \/ store_result

SpecProbe == InitProbe /\ [][NextProbe]_vars

(***************************************************************************)
(* Claims about construction and the scan() contract                       *)
(***************************************************************************)

\* scan() was called on the constructed scanner and is over
ScanOver == probe.pc \in { "returned", "escaped" }

\* an exception raised by a step inside the try block of scan()
StepRaised == ScanOver /\ probe.event.kind = "raises"

ConstructorOver == probe.pc \in { "constructed", "raised", "returned", "escaped" }

\* C12: a constructor that raises raises InvalidTargetError, it raises for
\* every target that is neither an IP literal nor a syntactically valid
\* domain (with or without an http:// or https:// prefix), it does so before
\* any network operation, and scan() neither raises nor reports
\* InvalidTargetError
C12_OnlyInvalidTargetError ==
    /\ probe.pc = "raised"
         => /\ probe.exception = "InvalidTargetError"
            /\ probe.network_ops = 0
    /\ (ConstructorOver /\ validate_target(probe.raw) # "True")
         => probe.pc = "raised"
    /\ ScanOver => probe.exception # "InvalidTargetError"

\* C13: the target a constructed scanner holds is an IP literal or a bare
\* domain name
C13_TargetIsIpOrDomain ==
    probe.pc \in { "constructed", "returned", "escaped" }
    => is_valid_ip(probe.target) \/ is_valid_domain(probe.target)


\* C18: when a step of scan() raises ScanningNotPossibleError, scan()
\* returns a failed result whose note is "Scanning not possible; <reason>",
\* the reason being the exception's message; when it raises the scanner's
\* timeout class the note is "Data not obtained; <operation> timed out
\* after 30 seconds"
C18_NotPossibleNote ==
    StepRaised =>
      /\ probe.event.exc = "ScanningNotPossibleError"
           => /\ probe.pc = "returned"
              /\ probe.result.status = "failed"
              /\ probe.result.note =
                   "Scanning not possible; " \o probe.event.e
      /\ probe.event.exc = TimeoutClassOf(probe.cls)
           => /\ probe.pc = "returned"
              /\ probe.result.status = "failed"
              /\ probe.result.note =
                   "Data not obtained; " \o TimeoutOperationOf(probe.cls)
                     \o " timed out after 30 seconds"

\* the fields of a category result besides its status, duration and note,
\* and besides the orchestrator's "data" field, which holds None
PayloadFields(r) == DOMAIN r \ { "status", "scan_duration", "note", "data" }

\* C19: a category result, as returned by scan() and as stored by the
\* orchestrator (scan()'s result, or the entry made for an exception that
\* left the constructor), has a note exactly when its status is failed and
\* has payload fields only when its status is completed
C19_NoteIffFailed ==
    LET WellFormed(r) ==
            /\ r.status \in { "completed", "failed" }
            /\ ("note" \in DOMAIN r) <=> (r.status = "failed")
            /\ r.status # "completed"
                 => /\ PayloadFields(r) = { }
                    /\ "data" \in DOMAIN r => r.data = "None"
    IN  /\ probe.pc = "returned" => WellFormed(probe.result)
        /\ probe.pc = "stored" => WellFormed(probe.entry)

\* the CVE scanner returned a completed result, stored with its payload and
\* without a note
C19_Witness ==
    /\ probe.pc = "stored"
    /\ probe.cls = "vulnerabilities"
    /\ probe.from = "returned"
    /\ probe.entry.status = "completed"
    /\ "note" \notin DOMAIN probe.entry
    /\ "vulnerabilities" \in PayloadFields(probe.entry)


(***************************************************************************)
(* Claims about progress reporting in run_comprehensive_scan               *)
(***************************************************************************)

MaxDeliveries == 2

\* what one category can meet while the job runs
JobOutcomes == { InitRaises, ScanRaises, ScanReturns(Completed(EmptyDict)) }

\* celery's soft time limit signal raising inside the steps of a category
SoftLimitRaised == [ step |-> "scan", e |-> "SoftTimeLimitExceeded()" ]

\* a scan request about to be handled by create_scan ("celery", "demo"), or
\* a task message for a scan id that has no record ("orphan")
NewJob(mode) ==
    [ pc          |-> IF mode = "orphan" THEN "delivered" ELSE "request",
      mode        |-> mode,
      record      |-> FALSE,     \* the ScanRecord row exists
      history     |-> << >>,     \* the status values committed, in order
      causes      |-> << >>,     \* error_message of each FAILED commit
      deliveries  |-> IF mode = "orphan" THEN 1 ELSE 0,
      soft_fired  |-> FALSE,     \* the soft limit was raised in this run
      after_soft  |-> 0,         \* categories handled after the soft limit
      outside     |-> "none",    \* exception that reached perform_scan's except
      score       |-> << >> ]    \* general_score written by this run

InitJob ==
    /\ engine = [ e \in Engines |-> ScoringEngine ]
    /\ scan_results = EmptyDict
    /\ report = [ e \in Engines |-> << >> ]
    /\ locals = [ e \in Engines |-> << >> ]
    /\ helper_arg = NoArg
    /\ helper_out = << >>
    /\ orch = OrchIdle
    /\ expo = ExpoIdle
    /\ probe = ProbeIdle
    /\ tls_scanner = TlsIdle
    /\ limiter = LimiterIdle
    /\ pool = PoolIdle
    /\ \E mode \in { "celery", "demo", "orphan" } : job = NewJob(mode)

\* scan_record.status = value; db.commit()
Commit(j, value) == [ j EXCEPT !.history = Append(@, value) ]

\* the except clause of perform_scan: the record, when there is one, is set
\* to FAILED with error_message str(e), and the task raises
ExceptClause(j, e) ==
    [ (IF j.record
       THEN [ Commit(j, "failed") EXCEPT !.causes = Append(@, e) ]
       ELSE j)
      EXCEPT !.pc = "raised", !.outside = e ]

\* create_scan after validation: the record is added as QUEUED; in demo
\* mode the demo scan runs in the request, otherwise the task is queued
create_scan ==
    /\ job.pc = "request"
    /\ LET queued == [ Commit(job, "queued") EXCEPT !.record = TRUE ]
       IN  IF job.mode = "demo"
           THEN \E outcome \in { "ok", "scan_raises", "log_raises" } :
                  job' =
                    [ (CASE outcome = "ok" -> Commit(queued, "completed")
                         [] outcome = "scan_raises" ->
                              Commit(queued, "failed")
                         [] outcome = "log_raises" ->
                              Commit(Commit(queued, "completed"), "failed"))
                      EXCEPT !.pc = "responded" ]
           ELSE job' = [ queued EXCEPT !.pc = "delivered", !.deliveries = 1 ]
    /\ UNCHANGED << engine, scan_results, report, locals, helper_arg,
                    helper_out, orch, expo, probe, tls_scanner, limiter,
                    pool >>

\* perform_scan up to the call of run_comprehensive_scan: the record is
\* looked up and set to RUNNING, the start is logged, the first progress
\* state is sent
begin_task ==
    /\ job.pc = "delivered"
    /\ \E outcome \in { "ok", "log_raises" } :
         IF ~ job.record
         THEN /\ job' = ExceptClause(job, "Scan record not found: scan-1")
              /\ orch' = orch
         ELSE IF outcome = "ok"
         THEN /\ job' = [ Commit(job, "running") EXCEPT !.pc = "scanning" ]
              /\ orch' = OrchEntry(TRUE)
         ELSE /\ job' = ExceptClause(Commit(job, "running"),
                                     "logging failed")
              /\ orch' = orch
    /\ UNCHANGED << engine, scan_results, report, locals, helper_arg,
                    helper_out, expo, probe, tls_scanner, limiter, pool >>

\* one pass of the loop of run_comprehensive_scan inside the task
job_scan_category ==
    /\ job.pc = "scanning"
    /\ orch.i <= total_categories
    /\ \E outcome \in JobOutcomes :
         orch' = LoopBody(orch, scan_categories[orch.i], outcome)
    /\ job' = [ job EXCEPT
                  !.after_soft = IF job.soft_fired THEN @ + 1 ELSE @ ]
    /\ UNCHANGED << engine, scan_results, report, locals, helper_arg,
                    helper_out, expo, probe, tls_scanner, limiter, pool >>

\* task_soft_time_limit: SoftTimeLimitExceeded is raised in the running
\* task: inside the try block of the category being handled, or, once the
\* loop is over, in perform_scan itself
soft_limit ==
    /\ job.pc = "scanning"
    /\ ~ job.soft_fired
    /\ IF orch.i <= total_categories
       THEN /\ orch' = LoopBody(orch, scan_categories[orch.i], SoftLimitRaised)
            /\ job' = [ job EXCEPT !.soft_fired = TRUE ]
       ELSE /\ orch' = orch
            /\ job' = ExceptClause([ job EXCEPT !.soft_fired = TRUE ],
                                   "SoftTimeLimitExceeded()")
    /\ UNCHANGED << engine, scan_results, report, locals, helper_arg,
                    helper_out, expo, probe, tls_scanner, limiter, pool >>

\* the record update without the call of calculate_score
CompleteTaskUnscored(j, results) ==
    [ Commit(j, "completed") EXCEPT !.pc = "committed" ]

\* perform_scan after run_comprehensive_scan returned: calculate_score,
\* then the record is set to COMPLETED with the score
CompleteTask(j, results) ==
    LET l == CalculateScoreLocals(ScoringEngine, results)
    IN  [ Commit(j, "completed") EXCEPT
            !.pc = "committed",
            !.score = << ReturnValue(l).score >> ]

complete_task ==
    /\ job.pc = "scanning"
    /\ orch.i > total_categories
    /\ \E outcome \in { "ok", "commit_raises" } :
         job' = IF outcome = "ok" THEN CompleteTask(job, orch.results)
                ELSE ExceptClause(job, "database is locked")
    /\ UNCHANGED << engine, scan_results, report, locals, helper_arg,
                    helper_out, orch, expo, probe, tls_scanner, limiter,
                    pool >>

\* perform_scan after the COMPLETED commit: the completion and the critical
\* and high problems are logged, the task returns
return_task ==
    /\ job.pc = "committed"
    /\ \E outcome \in { "ok", "log_raises" } :
         job' = IF outcome = "ok" THEN [ job EXCEPT !.pc = "returned" ]
                ELSE ExceptClause(job, "logging failed")
    /\ UNCHANGED << engine, scan_results, report, locals, helper_arg,
                    helper_out, orch, expo, probe, tls_scanner, limiter,
                    pool >>

\* task_time_limit: the worker process running the task is killed sixty
\* seconds after the soft limit if the task is still running
hard_limit ==
    /\ job.pc \in { "scanning", "committed" }
    /\ job.soft_fired
    /\ job' = [ job EXCEPT !.pc = "killed" ]
    /\ UNCHANGED << engine, scan_results, report, locals, helper_arg,
                    helper_out, orch, expo, probe, tls_scanner, limiter,
                    pool >>

\* the worker is lost while it runs the task, and with it the task's
\* memory: with task_acks_late the message was not acknowledged
worker_lost ==
    /\ job.pc \in { "scanning", "committed" }
    /\ job.deliveries < MaxDeliveries
    /\ job' = [ job EXCEPT !.pc = "lost" ]
    /\ orch' = OrchIdle
    /\ UNCHANGED << engine, scan_results, report, locals, helper_arg,
                    helper_out, expo, probe, tls_scanner, limiter, pool >>

\* the broker delivers the unacknowledged message again
redeliver ==
    /\ job.pc = "lost"
    /\ job' = [ job EXCEPT !.pc = "delivered",
                           !.deliveries = @ + 1,
                           !.soft_fired = FALSE,
                           !.after_soft = 0,
                           !.score = << >> ]
    /\ UNCHANGED << engine, scan_results, report, locals, helper_arg,
                    helper_out, orch, expo, probe, tls_scanner, limiter,
                    pool >>

NextJob ==
    \/ create_scan
    \/ begin_task
    \/ job_scan_category
    \/ soft_limit
    \/ complete_task
    \/ return_task
    \/ hard_limit
    \/ worker_lost
    \/ redeliver

SpecJob == InitJob /\ [][NextJob]_vars


(***************************************************************************)
(* Claims about the scan job                                               *)
(***************************************************************************)

\* the status last committed to the record
LastStatus == job.history[Len(job.history)]

\* C14: the statuses committed to a job's record form a prefix of QUEUED,
\* RUNNING, COMPLETED or of QUEUED, RUNNING, FAILED
C14_StatusStateMachine ==
    job.pc # "idle"
    => job.history \in { << >>,
                         << "queued" >>,
                         << "queued", "running" >>,
                         << "queued", "running", "completed" >>,
                         << "queued", "running", "failed" >> }

\* the statuses the step commits to the record
Committed ==
    { job'.history[k] : k \in (Len(job.history) + 1)..Len(job'.history) }

\* the step is a pass of the orchestrator's loop over one category
CategoryPass == orch.pc = "loop" /\ orch'.pc = "loop" /\ orch'.i = orch.i + 1

\* what a step of the task may do to the record
C15_Step ==
    /\ CategoryPass => job'.history = job.history
    /\ job.mode # "demo" =>
         /\ "failed" \in Committed =>
              /\ job'.pc = "raised"
              /\ job'.outside # "none"
              /\ job'.outside \notin { InitRaises.e, ScanRaises.e }
              /\ orch' = orch
         /\ "completed" \in Committed =>
              /\ orch.i > 8
              /\ DOMAIN orch.results = Categories
              /\ job'.score # << >>
              /\ job'.score[1] \in 0..100
              /\ job'.score[1] =
                   ReturnValue(CalculateScoreLocals(ScoringEngine,
                                                    orch.results)).score

\* how a run of the task can end
C15_End ==
    job.mode # "demo" =>
      /\ job.pc = "raised" => job.outside # "none"
      /\ job.pc \in { "committed", "returned" } =>
           /\ LastStatus = "completed"
           /\ job.score # << >>
           /\ job.outside = "none"

\* C15: perform_scan commits FAILED only in its except clause, reached by an
\* exception raised outside the loop of run_comprehensive_scan (a pass over
\* a category never changes the record, whatever its constructor or scan()
\* raises); a run in which no such exception occurs ends with COMPLETED
\* committed, and COMPLETED is committed only once the loop is over and
\* together with the score calculate_score returned for the category map
C15_FailedOnlyOutside == [] C15_End /\ [][C15_Step]_vars

\* a run in which every category raised, in the constructor or in scan(),
\* and which returned with the record COMPLETED and a score
C15_Witness ==
    /\ job.pc = "returned"
    /\ job.mode = "celery"
    /\ job.history = << "queued", "running", "completed" >>
    /\ \A k \in 1..8 : orch.raised[k] \in { "init", "scan" }
    /\ orch.raised[1] = "init"
    /\ orch.raised[2] = "scan"
    /\ \A c \in Categories : orch.results[c].status = "failed"
    /\ job.score # << >>

\* the run of the task is over
TaskOver == job.pc \in { "returned", "raised", "killed" }

\* C16: once the soft limit was raised in a run, no further category is
\* handled, the record is never COMPLETED, and when the run is over the
\* record is FAILED
C16_DeadlineFails ==
    (job.pc # "idle" /\ job.soft_fired)
    => /\ job.after_soft = 0
       /\ LastStatus # "completed"
       /\ TaskOver => LastStatus = "failed"


(***************************************************************************)
(* The all-completed scenario of the scoring engine                        *)
(***************************************************************************)

AllCompleted(results) ==
    \A c \in Categories : StatusOf(results, c) = "completed"

\* no entry carries a finding: every vulnerabilities list is empty or missing
NoFindings(results) ==
    \A c \in DOMAIN results : Get(results[c], "vulnerabilities", << >>) = << >>

\* the payloads give the eight scorers nothing to take points for
NothingToDeduct(results) ==
    LET exposure == results["internet_exposure"]
        tls == results["tls_security"]
        web == results["web_security"]
        email == results["email_security"]
        cve == results["vulnerabilities"]
        iam == results["iam_assessment"]
        backup == results["backup_dr"]
        monitoring == results["logging_monitoring"]
        open_ports == Get(exposure, "open_ports", << >>)
        tls_versions == Get(tls, "tls_versions", << >>)
        certificate == Get(tls, "certificate", EmptyDict)
        risk_summary == Get(cve, "risk_summary", EmptyDict)
        admin_interfaces == Get(iam, "admin_interfaces", << >>)
    IN  /\ \A i \in 1..Len(open_ports) :
              LET port == Get(open_ports[i], "port", NoPort)
              IN  /\ port \notin {21, 23, 135, 139, 445, 1433, 3389}
                  /\ port \in {80, 8080} =>
                        \E j \in 1..Len(open_ports) :
                            Get(open_ports[j], "port", NoPort) = 443
        /\ \A i \in 1..Len(tls_versions) :
              tls_versions[i] \notin {"TLSv1.0", "TLSv1.1"}
        /\ Truthy(certificate) =>
              Get(certificate, "days_until_expiry", 365) >= 30
        /\ Get(web, "security_score", 0) >= 100
        /\ \A i \in 1..Len(Get(web, "missing_headers", << >>)) :
              web.missing_headers[i] \notin {"HSTS", "CSP"}
        /\ Get(Get(email, "spf", EmptyDict), "exists", FALSE)
        /\ Get(Get(email, "dkim", EmptyDict), "selectors_found", << >>) # << >>
        /\ Get(Get(email, "dmarc", EmptyDict), "exists", FALSE)
        /\ \A s \in {"critical", "high", "medium", "low"} :
              Get(risk_summary, s, 0) = 0
        /\ \A i \in 1..Len(admin_interfaces) :
              /\ Get(admin_interfaces[i], "authentication_required", FALSE)
              /\ Get(admin_interfaces[i], "mfa_detected", FALSE)
        /\ Get(backup, "exposed_backups", << >>) = << >>
        /\ Get(backup, "config_files", << >>) = << >>
        /\ Get(monitoring, "waf_detected", FALSE)
        /\ Get(monitoring, "ddos_protection", FALSE)
        /\ Get(monitoring, "rate_limiting", FALSE)

\* C20 as stated: when all eight categories are present with status completed
\* and none of them carries any finding, calculate_score returns score 100
\* and an empty problem list.
C20_NoFindingsScore100 ==
    \A e \in Engines :
        (Returned(e) /\ AllCompleted(scan_results) /\ NoFindings(scan_results))
            => /\ report[e][1].score = 100
               /\ report[e][1].problems = << >>

\* C20: when all eight categories are present with status completed, none of
\* them carries any finding, and the payloads hold nothing the scorers take
\* points for (no high-risk open port and no plain HTTP port without 443, no
\* TLS 1.0/1.1 and no certificate within 30 days of expiry, a web
\* security_score of at least 100 with neither HSTS nor CSP missing, SPF, DKIM
\* and DMARC present, a risk summary of zero, every admin interface with
\* authentication and MFA, no exposed backup or configuration file, and WAF,
\* DDoS protection and rate limiting detected), calculate_score returns score
\* 100 and an empty problem list.
C20_CleanScore100 ==
    \A e \in Engines :
        (/\ Returned(e)
         /\ AllCompleted(scan_results)
         /\ NoFindings(scan_results)
         /\ NothingToDeduct(scan_results))
            => /\ report[e][1].score = 100
               /\ report[e][1].problems = << >>

\* a call returned 100 and no problem for eight completed entries without
\* findings whose payloads are not all empty: ports 80, 443 and 8080 are open
C20_Witness ==
    \E e \in Engines :
        /\ Returned(e)
        /\ AllCompleted(scan_results)
        /\ NoFindings(scan_results)
        /\ NothingToDeduct(scan_results)
        /\ scan_results["internet_exposure"].open_ports # << >>
        /\ report[e][1].score = 100
        /\ report[e][1].problems = << >>


(***************************************************************************)
(* The one-failed-category scenario of the scoring engine                  *)
(***************************************************************************)

\* the categories whose entry has status failed
FailedCategories(results) ==
    { c \in Categories : StatusOf(results, c) = "failed" }

\* every category but c is completed and carries no finding
OthersCompletedNoFindings(results, c) ==
    \A d \in Categories \ { c } :
        /\ StatusOf(results, d) = "completed"
        /\ Get(results[d], "vulnerabilities", << >>) = << >>

\* 100 - 0.2 x weight, cut to a whole number as the score is
ScoreWithOneFailed(c) == IntTrunc(1000 - 2 * category_weights[c], 10)

\* the payloads of the categories other than c hold nothing the scorers take
\* or give points for
OthersNothingToDeduct(results, c) ==
    LET filled == [ d \in Categories |->
                      IF d = c THEN MakeMap(AllClean)[d] ELSE results[d] ]
    IN  /\ NothingToDeduct(filled)
        /\ Get(filled["web_security"], "security_score", 0) = 100

\* C21 as stated: when exactly one category has status failed and the other
\* seven are completed with no findings, calculate_score returns the score
\* 100 - 0.2 x weight and a summary with categories_failed = 1 and
\* categories_completed = 7.
C21_OneFailedScore ==
    \A e \in Engines :
        \A c \in Categories :
            (/\ Returned(e)
             /\ FailedCategories(scan_results) = { c }
             /\ OthersCompletedNoFindings(scan_results, c))
                => /\ report[e][1].score = ScoreWithOneFailed(c)
                   /\ report[e][1].summary.categories_failed = 1
                   /\ report[e][1].summary.categories_completed = 7

\* C21: when exactly one category has status failed, the other seven are
\* completed with no findings and their payloads hold nothing the scorers
\* take or give points for (as in C20, with a web security_score of exactly
\* 100), calculate_score returns the whole part of 100 - 0.2 x weight as the
\* score, and a summary with categories_failed = 1 and
\* categories_completed = 7.
C21_OneFailedCleanScore ==
    \A e \in Engines :
        \A c \in Categories :
            (/\ Returned(e)
             /\ FailedCategories(scan_results) = { c }
             /\ OthersCompletedNoFindings(scan_results, c)
             /\ OthersNothingToDeduct(scan_results, c))
                => /\ report[e][1].score = ScoreWithOneFailed(c)
                   /\ report[e][1].summary.categories_failed = 1
                   /\ report[e][1].summary.categories_completed = 7

\* a call returned 98 for a failed email_security entry next to seven
\* completed entries with nothing to deduct
C21_Witness ==
    \E e \in Engines :
        /\ Returned(e)
        /\ FailedCategories(scan_results) = { "email_security" }
        /\ OthersCompletedNoFindings(scan_results, "email_security")
        /\ OthersNothingToDeduct(scan_results, "email_security")
        /\ report[e][1].score = 98
        /\ report[e][1].summary.categories_failed = 1


(***************************************************************************)
(* TLSSecurityScanner (app/scanners/tls_security.py)                       *)
(***************************************************************************)

\* self.tls_ports
tls_ports == << 443, 993, 995, 465, 587, 636, 989, 990 >>

\* the versions _test_tls_versions tries, in its order
TlsVersionNames == << "TLSv1.0", "TLSv1.1", "TLSv1.2", "TLSv1.3" >>

vulnerable_versions == << "TLSv1.0", "TLSv1.1", "SSLv2", "SSLv3" >>

Member(x, s) == \E i \in 1..Len(s) : s[i] = x

\* self.results as __init__ sets it.  certificate starts as None, which
\* like the empty dict is false where the scorer tests it
TlsResults ==
    [ tls_versions |-> << >>, certificate |-> EmptyDict,
      cipher_suites |-> << >>, hsts_enabled |-> FALSE,
      hsts_max_age |-> "None", certificate_chain |-> << >>,
      vulnerabilities |-> << >> ]

\* the ports of the target that can complete the handshake of discovery
CapablePortSets == SUBSET { 443, 993 }

\* the version lists a port can answer the four handshakes of
\* _test_tls_versions with
SupportedVersionLists ==
    { << >>, << "TLSv1.2", "TLSv1.3" >>, << "TLSv1.0", "TLSv1.2" >>,
      << "TLSv1.0", "TLSv1.1", "TLSv1.2" >>, << "TLSv1.3" >> }

\* what certificate retrieval can meet: the handshake or the parsing raises,
\* or a certificate with these days until expiry and key size
ExpiryDays == { -5, 0, 29, 30, 200 }
CertificateFails == [ kind |-> "raises" ]
Certificate(days, key_size) ==
    [ kind |-> "certificate", days_until_expiry |-> days,
      key_size |-> key_size ]
CertificateOutcomes ==
    { CertificateFails, Certificate(200, 1024) }
    \cup { Certificate(d, 2048) : d \in ExpiryDays }

\* what _test_cipher_suites can meet: no cipher or a raise, or a cipher name
CipherOutcomes == { "none", "TLS_AES_256_GCM_SHA384", "ECDHE-RSA-DES-CBC3-SHA" }

\* what the HSTS fetch can meet
HstsOutcomes == { "raises", "absent", "max-age=31536000", "preload" }

\* _find_tls_services: the ports checked and the services found
ports_to_check(scan_type) ==
    IF scan_type = "quick" THEN << 443 >> ELSE tls_ports

RECURSIVE FindTlsServices(_, _, _, _)
FindTlsServices(ports, capable, scan_type, k) ==
    IF k > Len(ports) THEN [ checked |-> << >>, found |-> << >> ]
    ELSE IF ports[k] \in capable
    THEN IF scan_type = "quick"
         THEN [ checked |-> << ports[k] >>, found |-> << ports[k] >> ]
         ELSE LET rest == FindTlsServices(ports, capable, scan_type, k + 1)
              IN  [ checked |-> << ports[k] >> \o rest.checked,
                    found |-> << ports[k] >> \o rest.found ]
    ELSE LET rest == FindTlsServices(ports, capable, scan_type, k + 1)
         IN  [ checked |-> << ports[k] >> \o rest.checked,
               found |-> rest.found ]

find_tls_services_none(capable, scan_type) ==
    [ checked |-> << >>, found |-> << >> ]

find_tls_services(capable, scan_type) ==
    FindTlsServices(ports_to_check(scan_type), capable, scan_type, 1)

\* _test_tls_versions: the version list replaces the earlier one, the
\* findings are appended
WeakVersionFindings(supported) ==
    LET weak == SelectSeq(vulnerable_versions,
                          LAMBDA v : Member(v, supported))
    IN  [ i \in 1..Len(weak) |->
            [ type |-> "weak_tls_version", version |-> weak[i],
              severity |-> IF weak[i] \in { "SSLv2", "SSLv3" }
                           THEN "high" ELSE "medium",
              description |->
                  weak[i] \o " is deprecated and vulnerable to attacks" ] ]

test_tls_versions(results, supported) ==
    [ results EXCEPT
        !.tls_versions = supported,
        !.vulnerabilities = @ \o WeakVersionFindings(supported) ]

\* the severity _get_certificate_info gives a certificate_expiry finding
ExpirySeverityFlat(days_until_expiry) == "medium"

ExpirySeverity(days_until_expiry) ==
    IF days_until_expiry < 0 THEN "high" ELSE "medium"

\* _get_certificate_info (the finding's "expires" date is left out)
CertificateFindings(cert) ==
    (IF cert.days_until_expiry < 30
     THEN << [ type |-> "certificate_expiry",
               severity |-> ExpirySeverity(cert.days_until_expiry),
               description |-> "Certificate expires in "
                   \o ToString(cert.days_until_expiry) \o " days" ] >>
     ELSE << >>)
    \o (IF cert.key_size < 2048
        THEN << [ type |-> "weak_key_size", severity |-> "medium",
                  description |-> "Certificate uses weak key size: "
                      \o ToString(cert.key_size) \o " bits",
                  key_size |-> cert.key_size ] >>
        ELSE << >>)

get_certificate_info(results, outcome) ==
    IF outcome.kind = "raises" THEN results
    ELSE [ results EXCEPT
             !.vulnerabilities = @ \o CertificateFindings(outcome),
             !.certificate = [ key_size |-> outcome.key_size,
                               days_until_expiry |->
                                   outcome.days_until_expiry ] ]

\* _test_cipher_suites
test_cipher_suites(results, cipher) ==
    IF cipher = "none" THEN results
    ELSE [ results EXCEPT
             !.cipher_suites = Append(@, [ name |-> cipher ]),
             !.vulnerabilities =
                 IF cipher = "ECDHE-RSA-DES-CBC3-SHA"
                 THEN Append(@, [ type |-> "weak_cipher",
                                  severity |-> "medium",
                                  description |->
                                      "Weak cipher suite supported: " \o cipher,
                                  cipher |-> cipher ])
                 ELSE @ ]

\* _check_hsts
check_hsts_results(results, outcome) ==
    CASE outcome = "raises" -> results
      [] outcome = "absent" ->
           [ results EXCEPT
               !.hsts_enabled = FALSE,
               !.vulnerabilities =
                   Append(@, [ type |-> "missing_hsts", severity |-> "low",
                               description |-> "HSTS header not configured",
                               recommendation |->
                                   "Enable HTTP Strict Transport Security" ]) ]
      [] outcome = "max-age=31536000" ->
           [ results EXCEPT !.hsts_enabled = TRUE, !.hsts_max_age = 31536000 ]
      [] OTHER -> [ results EXCEPT !.hsts_enabled = TRUE ]

\* TLSSecurityScanner(target, scan_type) for a target that meets these servers
NewTlsScanner(scan_type, capable) ==
    [ pc |-> "constructed", scan_type |-> scan_type, capable |-> capable,
      results |-> TlsResults, checked |-> << >>, tls_services |-> << >>,
      next |-> 1, analysed |-> << >>, hsts |-> "not fetched",
      returned |-> << >> ]

InitTls ==
    /\ \E scan_type \in { "quick", "full" }, capable \in CapablePortSets :
          tls_scanner = NewTlsScanner(scan_type, capable)
    /\ engine = [ e \in Engines |-> ScoringEngine ]
    /\ scan_results = EmptyDict
    /\ report = [ e \in Engines |-> << >> ]
    /\ locals = [ e \in Engines |-> << >> ]
    /\ helper_arg = NoArg
    /\ helper_out = << >>
    /\ orch = OrchIdle
    /\ expo = ExpoIdle
    /\ probe = ProbeIdle
    /\ job = JobIdle
    /\ limiter = LimiterIdle
    /\ pool = PoolIdle

OnlyTlsChanges ==
    UNCHANGED << engine, scan_results, report, locals, helper_arg,
                 helper_out, orch, expo, probe, job, limiter, pool >>

\* scan(): start_scan and discovery; without a service the failed result
\* is returned
tls_discover ==
    /\ tls_scanner.pc = "constructed"
    /\ LET d == find_tls_services(tls_scanner.capable, tls_scanner.scan_type)
       IN  tls_scanner' =
             IF d.found = << >>
             THEN [ tls_scanner EXCEPT
                      !.pc = "returned", !.checked = d.checked,
                      !.returned =
                          << handle_service_not_found("TLS/SSL services") >> ]
             ELSE [ tls_scanner EXCEPT
                      !.pc = "analysing", !.checked = d.checked,
                      !.tls_services = d.found ]
    /\ OnlyTlsChanges

\* one pass of "for service in tls_services": _analyze_tls_service(port)
analyze_tls_service ==
    /\ tls_scanner.pc = "analysing"
    /\ tls_scanner.next <= Len(tls_scanner.tls_services)
    /\ \E supported \in SupportedVersionLists,
          cert \in CertificateOutcomes,
          cipher \in CipherOutcomes :
          LET port == tls_scanner.tls_services[tls_scanner.next]
              r1 == test_tls_versions(tls_scanner.results, supported)
              r2 == get_certificate_info(r1, cert)
              r3 == IF tls_scanner.scan_type # "quick"
                    THEN test_cipher_suites(r2, cipher) ELSE r2
              before == Len(tls_scanner.results.vulnerabilities)
          IN  /\ tls_scanner.scan_type = "quick" => cipher = "none"
              /\ tls_scanner' =
                   [ tls_scanner EXCEPT
                       !.results = r3,
                       !.next = @ + 1,
                       !.analysed =
                           Append(@, [ port |-> port,
                                       supported |-> supported,
                                       cert |-> cert,
                                       appended |->
                                           SubSeq(r3.vulnerabilities,
                                                  before + 1,
                                                  Len(r3.vulnerabilities)) ]) ]
    /\ OnlyTlsChanges

\* the rest of scan(): the HSTS check when 443 or 8443 is among the
\* services, then create_result("completed", self.results)
tls_finish ==
    /\ tls_scanner.pc = "analysing"
    /\ tls_scanner.next > Len(tls_scanner.tls_services)
    /\ \E outcome \in HstsOutcomes :
          LET web == \E i \in 1..Len(tls_scanner.tls_services) :
                        tls_scanner.tls_services[i] \in { 443, 8443 }
              r == IF web THEN check_hsts_results(tls_scanner.results, outcome)
                   ELSE tls_scanner.results
          IN  /\ ~web => outcome = "raises"
              /\ tls_scanner' =
                   [ tls_scanner EXCEPT
                       !.pc = "returned",
                       !.results = r,
                       !.hsts = IF web THEN outcome ELSE "not fetched",
                       !.returned = << Completed(r) >> ]
    /\ OnlyTlsChanges

NextTls == tls_discover \/ analyze_tls_service \/ tls_finish

SpecTls == InitTls /\ [][NextTls]_vars


(***************************************************************************)
(* Properties of the TLS scanner                                           *)
(***************************************************************************)

TlsReturned == tls_scanner.pc = "returned"

TlsResult == tls_scanner.returned[1]

TlsCompleted == TlsReturned /\ TlsResult.status = "completed"

\* the findings of one type in a list of findings
FindingsOfType(findings, type) ==
    SelectSeq(findings, LAMBDA f : f.type = type)

\* the returned result reports a certificate, cipher or HSTS issue
OtherTlsIssue(r) ==
    \/ \E i \in 1..Len(r.vulnerabilities) :
          r.vulnerabilities[i].type # "weak_tls_version"
    \/ /\ Truthy(r.certificate)
       /\ r.certificate.days_until_expiry < 30

\* C22: for a TLS probe result whose supported versions are TLSv1.0 and
\* TLSv1.2 and that has no certificate, cipher or HSTS issue, the probe has
\* produced one weak_tls_version finding of severity medium, and the scoring
\* engine gives the TLS category the score weight - 6 (15 - 6 = 9).
C22_WeakVersionScore ==
    (/\ TlsCompleted
     /\ Len(tls_scanner.analysed) = 1
     /\ TlsResult.tls_versions = << "TLSv1.0", "TLSv1.2" >>
     /\ ~OtherTlsIssue(TlsResult))
        => LET weak == FindingsOfType(TlsResult.vulnerabilities,
                                      "weak_tls_version")
               weight == category_weights["tls_security"]
           IN  /\ Len(weak) = 1
               /\ weak[1].severity = "medium"
               /\ score_tls_security(TlsResult, weight).score = weight - 6


(***************************************************************************)
(* Scenarios of the exposure scorer                                        *)
(***************************************************************************)

\* the port numbers of the open_ports of the exposure entry
ExposurePorts(results) ==
    LET open_ports == Get(Get(results, "internet_exposure", EmptyDict),
                          "open_ports", << >>)
    IN  [ i \in 1..Len(open_ports) |-> Get(open_ports[i], "port", NoPort) ]

\* the problems of a report that belong to one category
ProblemsOf(problems, category) ==
    SelectSeq(problems, LAMBDA p : p.category = category)

\* C23: for a completed service-discovery result whose open ports are
\* exactly 22/ssh and 80/http (443 not open), the scorer produces exactly one
\* problem, of severity medium, for HTTP without HTTPS, and the category score
\* is weight - 2 (20 - 2 = 18).
C23_HttpWithoutHttps ==
    \A e \in Engines :
        (/\ Returned(e)
         /\ StatusOf(scan_results, "internet_exposure") = "completed"
         /\ ExposurePorts(scan_results) = << 22, 80 >>)
            => LET found == ProblemsOf(report[e][1].problems,
                                       "internet_exposure")
                   weight == category_weights["internet_exposure"]
               IN  /\ Len(found) = 1
                   /\ found[1].severity = "medium"
                   /\ found[1].issue = "HTTP service on port 80 without HTTPS"
                   /\ locals[e][1].category_scores10["internet_exposure"]
                          = 10 * (weight - 2)
                   /\ weight - 2 = 18

\* a call returned for a map whose exposure entry is completed with the open
\* ports 22 and 80
C23_Witness ==
    \E e \in Engines :
        /\ Returned(e)
        /\ StatusOf(scan_results, "internet_exposure") = "completed"
        /\ ExposurePorts(scan_results) = << 22, 80 >>
        /\ scan_results["internet_exposure"].open_ports[1].service = "ssh"
        /\ Len(ProblemsOf(report[e][1].problems, "internet_exposure")) = 1


\* the certificate_expiry findings one certificate retrieval appended
ExpiryFindings(a) == FindingsOfType(a.appended, "certificate_expiry")

\* C24: the severity of the certificate_expiry finding is a function of the
\* retrieved certificate's days_until_expiry: a negative value gives exactly
\* one certificate_expiry finding of severity high, a value from 0 to 29
\* gives exactly one of severity medium, and 30 or more gives none.
C24_ExpirySeverity ==
    \A i \in 1..Len(tls_scanner.analysed) :
        LET a == tls_scanner.analysed[i]
            found == ExpiryFindings(a)
        IN  a.cert.kind = "certificate" =>
                /\ a.cert.days_until_expiry < 0 =>
                      Len(found) = 1 /\ found[1].severity = "high"
                /\ a.cert.days_until_expiry \in 0..29 =>
                      Len(found) = 1 /\ found[1].severity = "medium"
                /\ a.cert.days_until_expiry >= 30 => found = << >>

\* a scan returned after retrieving a certificate that expired five days
\* ago, with the high finding in its result
C24_Witness ==
    /\ TlsCompleted
    /\ \E i \in 1..Len(tls_scanner.analysed) :
          /\ tls_scanner.analysed[i].cert.kind = "certificate"
          /\ tls_scanner.analysed[i].cert.days_until_expiry = -5
          /\ Len(ExpiryFindings(tls_scanner.analysed[i])) = 1
    /\ \E j \in 1..Len(TlsResult.vulnerabilities) :
          /\ TlsResult.vulnerabilities[j].type = "certificate_expiry"
          /\ TlsResult.vulnerabilities[j].severity = "high"


\* the ports that discovery may check in this scan's mode
CandidatePorts ==
    { ports_to_check(tls_scanner.scan_type)[i] :
        i \in 1..Len(ports_to_check(tls_scanner.scan_type)) }

C28_WeakVersionsReported ==
    TlsCompleted =>
        \A i \in 1..Len(TlsResult.vulnerabilities) :
            TlsResult.vulnerabilities[i].type = "weak_tls_version" =>
                Member(TlsResult.vulnerabilities[i].version,
                       TlsResult.tls_versions)


(***************************************************************************)
(* The socket fallback path of the exposure scanner                        *)
(***************************************************************************)

\* the candidate ports whose connect succeeded, in candidate-list order
AcceptedPorts(env, ports) ==
    SelectSeq(ports, LAMBDA p : Answer(env, p) = "accept")

\* C26: in the socket fallback path a port whose connect attempt is refused,
\* times out or raises is left out of open_ports and does not change the
\* probe's status: for every combination of per-port outcomes, including all
\* ports failing, scan() returns status completed with open_ports equal to the
\* ports whose connect succeeded, in candidate-list order.
C26_PortFailuresNotSurfaced ==
    (expo.pc = "returned" /\ ~ expo.use_nmap) =>
        /\ expo.result.status = "completed"
        /\ "note" \notin DOMAIN expo.result
        /\ [ k \in 1..Len(expo.result.open_ports) |->
               expo.result.open_ports[k].port ]
             = AcceptedPorts(expo.env, get_scan_ports(expo.scan_type))
        /\ \A k \in 1..Len(expo.result.open_ports) :
              /\ expo.result.open_ports[k].state = "open"
              /\ expo.result.open_ports[k].method = "socket_connect"

\* a socket scan returned completed with port 443 alone, after one tracked
\* port timed out, one raised, and every other port was refused
C26_Witness ==
    /\ expo.pc = "returned"
    /\ ~ expo.use_nmap
    /\ expo.env.answer[22] = "timeout"
    /\ expo.env.answer[8443] = "raises"
    /\ expo.env.other = "refused"
    /\ expo.result.status = "completed"
    /\ PortsOf(expo.result.open_ports) = { 443 }


(***************************************************************************)
(* The thread pool of _perform_socket_scan.  The state counts the worker   *)
(* threads and the attempts; the queue of the executor is first in first   *)
(* out, so the ports handed to workers so far are a prefix of the list.    *)
(***************************************************************************)

\* max_threads = min(50, len(ports)) with a worker too many
max_threads_one_more(n) == Min(51, n)

\* max_threads = min(50, len(ports))
max_threads(n) == Min(50, n)

\* _perform_socket_scan(ports) entered for the port list of a scan type
NewPool(scan_type) ==
    [ pc |-> "created", scan_type |-> scan_type,
      n |-> Len(get_scan_ports(scan_type)),
      max_workers |-> max_threads(Len(get_scan_ports(scan_type))),
      threads |-> 0,       \* worker threads started
      taken |-> 0,         \* ports taken from the queue by a worker
      in_flight |-> 0,     \* scan_port calls running
      finished |-> 0 ]     \* scan_port calls that returned

InitPool ==
    /\ \E scan_type \in ScanTypes : pool = NewPool(scan_type)
    /\ engine = [ e \in Engines |-> ScoringEngine ]
    /\ scan_results = EmptyDict
    /\ report = [ e \in Engines |-> << >> ]
    /\ locals = [ e \in Engines |-> << >> ]
    /\ helper_arg = NoArg
    /\ helper_out = << >>
    /\ orch = OrchIdle
    /\ expo = ExpoIdle
    /\ probe = ProbeIdle
    /\ job = JobIdle
    /\ tls_scanner = TlsIdle
    /\ limiter = LimiterIdle

OnlyPoolChanges ==
    UNCHANGED << engine, scan_results, report, locals, helper_arg,
                 helper_out, orch, expo, probe, job, tls_scanner, limiter >>

\* executor.map(scan_port, ports) submits every port.  submit starts a new
\* worker thread unless a worker is idle or max_workers threads exist, so
\* between one and max_workers threads exist afterwards.  Attempts that
\* start while ports are still being submitted run on no more threads than
\* exist afterwards.
executor_map ==
    /\ pool.pc = "created"
    /\ \E threads \in 1..pool.max_workers :
          pool' = [ pool EXCEPT !.pc = "running", !.threads = threads ]
    /\ OnlyPoolChanges

\* a worker without work takes the next port from the queue and calls
\* scan_port: the connection attempt is in flight
start_attempt ==
    /\ pool.pc = "running"
    /\ pool.in_flight < pool.threads
    /\ pool.taken < pool.n
    /\ pool' = [ pool EXCEPT !.taken = @ + 1, !.in_flight = @ + 1 ]
    /\ OnlyPoolChanges

\* scan_port returns: connected, refused, timed out after 3 seconds or raised
finish_attempt ==
    /\ pool.pc = "running"
    /\ pool.in_flight > 0
    /\ pool' = [ pool EXCEPT !.in_flight = @ - 1, !.finished = @ + 1 ]
    /\ OnlyPoolChanges

\* list(...) has every result and the with block has joined the workers
pool_return ==
    /\ pool.pc = "running"
    /\ pool.finished = pool.n
    /\ pool' = [ pool EXCEPT !.pc = "returned" ]
    /\ OnlyPoolChanges

NextPool ==
    executor_map \/ start_attempt \/ finish_attempt \/ pool_return

SpecPool == InitPool /\ [][NextPool]_vars

\* C25: in the socket fallback path, at every moment of a scan at most
\* min(50, number of candidate ports) connection attempts are in flight, for
\* the 14 ports of quick and custom mode and the 1000 ports of full mode, and
\* every candidate port has been attempted when the scan returns.
C25_BoundedPool ==
    /\ pool.n = (IF pool.scan_type = "full" THEN 1000 ELSE 14)
    /\ pool.in_flight <= (IF pool.n < 50 THEN pool.n ELSE 50)
    /\ pool.pc = "returned" =>
          /\ pool.taken = pool.n
          /\ pool.finished = pool.n
          /\ pool.in_flight = 0

\* a full scan with fifty attempts in flight while ports are still queued
C25_Witness ==
    /\ pool.scan_type = "full"
    /\ pool.in_flight = 50
    /\ pool.taken < pool.n
    /\ pool.finished > 0


(***************************************************************************)
(* The summary counters                                                    *)
(***************************************************************************)

\* C29: in every summary returned by calculate_score, critical_issues +
\* high_issues + medium_issues + low_issues = total_issues_found = length of
\* the returned problem list, for every input, including findings whose
\* severity is not one of the four levels.
C29_SeverityCountsAddUp ==
    \A e \in Engines :
        Returned(e) =>
            LET s == report[e][1].summary
            IN  /\ s.total_issues_found = Len(report[e][1].problems)
                /\ s.critical_issues + s.high_issues + s.medium_issues
                       + s.low_issues = s.total_issues_found


(***************************************************************************)
(* RateLimiter (app/utils/rate_limiter.py) with Redis, for the requests of *)
(* one client IP.  A Redis key is << >> while it does not exist and << n >>*)
(* while it holds n.  Every Redis round trip is a step of its own; the     *)
(* pipeline of record_scan_start runs as one transaction.                  *)
(***************************************************************************)

\* settings.MAX_SCANS_PER_HOUR, settings.MAX_CONCURRENT_SCANS
MAX_SCANS_PER_HOUR == 10
MAX_CONCURRENT_SCANS == 3

\* the concurrent requests of the client
MaxRequests == 4
Requests == 1..MaxRequests

\* redis GET and INCR / DECR on a key
RedisGet(key) == key
RedisIncr(key) == IF key = << >> THEN << 1 >> ELSE << key[1] + 1 >>
RedisDecr(key) == IF key = << >> THEN << -1 >> ELSE << key[1] - 1 >>

\* "current_scans and int(current_scans) >= limit"
AtLimit(value, limit) == value # << >> /\ value[1] >= limit

InitLimiter ==
    /\ limiter = [ pc |-> "serving",
                   hourly |-> << >>,       \* scan_limit:<ip>:<hour>
                   concurrent |-> << >>,   \* concurrent_scans:<ip>
                   request |-> [ r \in Requests |->
                                   [ pc |-> "arrived", read |-> << >> ] ] ]
    /\ engine = [ e \in Engines |-> ScoringEngine ]
    /\ scan_results = EmptyDict
    /\ report = [ e \in Engines |-> << >> ]
    /\ locals = [ e \in Engines |-> << >> ]
    /\ helper_arg = NoArg
    /\ helper_out = << >>
    /\ orch = OrchIdle
    /\ expo = ExpoIdle
    /\ probe = ProbeIdle
    /\ job = JobIdle
    /\ tls_scanner = TlsIdle
    /\ pool = PoolIdle

OnlyLimiterChanges ==
    UNCHANGED << engine, scan_results, report, locals, helper_arg,
                 helper_out, orch, expo, probe, job, tls_scanner, pool >>

Goto(r, pc, read) ==
    [ limiter EXCEPT !.request[r] = [ pc |-> pc, read |-> read ] ]

\* can_start_scan, first half: GET of the hourly key and its test
check_hourly(r) ==
    /\ limiter.request[r].pc = "arrived"
    /\ LET current_scans == RedisGet(limiter.hourly)
       IN  limiter' =
             IF AtLimit(current_scans, MAX_SCANS_PER_HOUR)
             THEN Goto(r, "rejected", << >>)
             ELSE Goto(r, "checking", << >>)
    /\ OnlyLimiterChanges

\* can_start_scan, second half: GET of the concurrent key and its test
check_concurrent(r) ==
    /\ limiter.request[r].pc = "checking"
    /\ LET concurrent_scans == RedisGet(limiter.concurrent)
       IN  limiter' =
             IF AtLimit(concurrent_scans, MAX_CONCURRENT_SCANS)
             THEN Goto(r, "rejected", << >>)
             ELSE Goto(r, "admitted", << >>)
    /\ OnlyLimiterChanges

\* record_scan_start: INCR and EXPIRE of both keys in one transaction
record_scan_start(r) ==
    /\ limiter.request[r].pc = "admitted"
    /\ limiter' = [ limiter EXCEPT
                      !.hourly = RedisIncr(@),
                      !.concurrent = RedisIncr(@),
                      !.request[r] = [ pc |-> "scanning", read |-> << >> ] ]
    /\ OnlyLimiterChanges

\* record_scan_end, first half: GET of the concurrent key
scan_end_get(r) ==
    /\ limiter.request[r].pc = "scanning"
    /\ limiter' = Goto(r, "ending", RedisGet(limiter.concurrent))
    /\ OnlyLimiterChanges

\* record_scan_end, second half: DECR when the value read was above 0
scan_end_decr(r) ==
    /\ limiter.request[r].pc = "ending"
    /\ LET current_count == limiter.request[r].read
       IN  limiter' =
             IF current_count # << >> /\ current_count[1] > 0
             THEN [ limiter EXCEPT
                      !.concurrent = RedisDecr(@),
                      !.request[r] = [ pc |-> "ended", read |-> << >> ] ]
             ELSE Goto(r, "ended", << >>)
    /\ OnlyLimiterChanges

\* the concurrent key expires DEFAULT_SCAN_TIMEOUT seconds after the last
\* record_scan_start
expire_concurrent ==
    /\ limiter.pc = "serving"
    /\ limiter.concurrent # << >>
    /\ limiter' = [ limiter EXCEPT !.concurrent = << >> ]
    /\ OnlyLimiterChanges

\* the hour ends: the requests that follow use a new hourly key
next_hour ==
    /\ limiter.pc = "serving"
    /\ limiter.hourly # << >>
    /\ limiter' = [ limiter EXCEPT !.hourly = << >> ]
    /\ OnlyLimiterChanges

NextLimiter ==
    \/ \E r \in Requests : check_hourly(r)
    \/ \E r \in Requests : check_concurrent(r)
    \/ \E r \in Requests : record_scan_start(r)
    \/ \E r \in Requests : scan_end_get(r)
    \/ \E r \in Requests : scan_end_decr(r)
    \/ expire_concurrent
    \/ next_hour

SpecLimiter == InitLimiter /\ [][NextLimiter]_vars

\* the value of the concurrent-scan counter, 0 while the key does not exist
ConcurrentCount ==
    IF limiter.concurrent = << >> THEN 0 ELSE limiter.concurrent[1]

\* C30: with the Redis-backed RateLimiter, when every scan start is admitted
\* only after can_start_scan returned true and is then recorded with
\* record_scan_start, and every scan end is recorded with record_scan_end,
\* the concurrent-scan counter stays within 0..MAX_CONCURRENT_SCANS under
\* every interleaving of concurrent requests from the same client IP.
C30_CounterWithinLimit ==
    ConcurrentCount \in 0..MAX_CONCURRENT_SCANS
====
